---------------------------- MODULE Spec2Model ----------------------------
(***************************************************************************)
(* Verification model of the screenshot server's guards:                   *)
(*   - Semaphore            (src/src/utils/semaphore.ts)                   *)
(*   - validateUrl          (src/unnamed/part_001, validators/url.ts)      *)
(*   - validateOutputPath   (src/src/validators/path.ts)                   *)
(*   - take_screenshot tool (src/unnamed/part_000, tools/take-screenshot)  *)
(*                                                                         *)
(* Strings of the program are sequences of one-character strings, so that  *)
(* startsWith, split, substring and the regular expressions of the source  *)
(* are computed and not assumed.                                           *)
(***************************************************************************)
EXTENDS Integers, Sequences, FiniteSets, TLC

VARIABLES
    \* ---- Semaphore instance (semaphore.ts:10-11)
    permits,      \* this.permits
    waiting,      \* this.waiting: FIFO of resolve callbacks (caller ids)
    \* ---- callers of a Semaphore (SemSpec)
    capacity,     \* constructor argument
    cpc,          \* caller -> "idle" | "suspended" | "resolved" | "holding"
    microtasks,   \* promise continuations queued by the JS run time, FIFO
    arrival,      \* history: callers in the order they were queued
    completed,    \* history: queued callers in the order acquire() completed
    lastOp,       \* history: the last Semaphore call and what it returned
    calls,        \* number of acquire()/tryAcquire() calls made so far
    strays,       \* history: release() calls made by a caller holding no permit
    \* ---- one call of validateUrl (UrlSpec)
    uPc,          \* "start" | "lookup" (awaiting dnsResolver.lookup) | "done"
    uUrl,         \* the urlString argument, as new URL() parses it
    uDns,         \* how dnsResolver.lookup settled
    uResult,      \* the returned UrlValidationResult
    uAgain,       \* what a second call with the same arguments returned
    \* ---- one call of validateOutputPath (PathSpec)
    pPc,          \* "start" | "done"
    pFs,          \* the file system behind fileSystem.realpath
    pCustom,      \* the customPath argument
    pOut,         \* the result, the path that was checked, the realpath calls
    pAgain,       \* the same for a second call, made on the path of a valid result
    \* ---- take_screenshot requests (ShotSpec)
    hPc,          \* request -> the await its handler is suspended at
    hBrowser,     \* request -> "none" | "open" | "closed": the browser it launched
    hPin,         \* request -> <<hostname, ip>> of --host-resolver-rules, or <<>>
    hTry,         \* request -> "none" | "true" | "false": what tryAcquire() returned
    hReleases,    \* request -> number of puppeteerSemaphore.release() calls
    hClose,       \* request -> "none" | "resolved" | "rejected": browser.close()
    hResp,        \* request -> the response being returned
    hLog,         \* history: request -> the calls its handler made, in order
    \* ---- the request handler of one capture (NavSpec)
    nUrl,         \* the url the capture was started with
    nReqs,        \* the intercepted requests, in the order of their events
    \* ---- the address one capture connects to (PinSpec)
    kPc,          \* "start" | "refused" | "launched" | "connected"
    kUrl,         \* the url argument, as new URL() parses it
    kValidation,  \* urlValidation, what validateUrl(url) returned
    kPin,         \* <<hostname, ip>> of --host-resolver-rules, or <<>>
    kNow,         \* what the name service answers when the browser connects
    kConnected,   \* the address the browser connected to for the url's host
    \* ---- one call of isBlockedIPv4 (Ipv4Spec)
    bPc,          \* "start" | "done", with the suffix 6 or Mapped for isBlockedIPv6
    bOctets,      \* history: the octets or 16-bit groups bIp was written from
    bIp,          \* the ip argument
    bResult       \* the returned { blocked, reason }

semVars  == <<permits, waiting>>
callVars == <<capacity, cpc, microtasks, arrival, completed, lastOp, calls, strays>>
urlVars  == <<uPc, uUrl, uDns, uResult, uAgain>>
pathVars == <<pPc, pFs, pCustom, pOut, pAgain>>
shotVars == <<hPc, hBrowser, hPin, hTry, hReleases, hClose, hResp, hLog>>
navVars  == <<nUrl, nReqs>>
pinVars  == <<kPc, kUrl, kValidation, kPin, kNow, kConnected>>
ipVars   == <<bPc, bOctets, bIp, bResult>>
vars     == <<semVars, callVars, urlVars, pathVars, shotVars, navVars, pinVars, ipVars>>

\* what the actions of one specification leave alone
notSem == <<urlVars, pathVars, shotVars, navVars, pinVars, ipVars>>
notUrl == <<semVars, callVars, pathVars, shotVars, navVars, pinVars, ipVars>>
notPath == <<semVars, callVars, urlVars, shotVars, navVars, pinVars, ipVars>>
notShot == <<callVars, urlVars, pathVars, navVars, pinVars, ipVars>>
notNav == <<semVars, callVars, urlVars, pathVars, shotVars, pinVars, ipVars>>
notPin == <<semVars, callVars, urlVars, pathVars, shotVars, navVars, ipVars>>
notIp == <<semVars, callVars, urlVars, pathVars, shotVars, navVars, pinVars>>

(***************************************************************************)
(* Bounds of the model.                                                    *)
(***************************************************************************)
NumCallers == 3
MaxPermits == 2
MaxCalls   == 5
MaxStrays  == 2
MaxAddrs   == 2
ExtraRequests == 1
MaxIntercepts == 2

Callers == 1..NumCallers

(***************************************************************************)
(* Strings: sequences of one-character strings.  Undefined stands for the  *)
(* JavaScript value undefined where a string is expected.                  *)
(***************************************************************************)
Undefined == <<"undefined">>

Digits    == {"0", "1", "2", "3", "4", "5", "6", "7", "8", "9"}
HexDigits == Digits \cup {"a", "b", "c", "d", "e", "f", "A", "B", "C", "D", "E", "F"}
LowerHex  == Digits \cup {"a", "b", "c", "d", "e", "f"}

DigitChars == <<"0", "1", "2", "3", "4", "5", "6", "7", "8", "9">>
LowerHexChars == DigitChars \o <<"a", "b", "c", "d", "e", "f">>
UpperChars == <<"A", "B", "C", "D", "E", "F", "G", "H", "I", "J", "K", "L", "M",
                "N", "O", "P", "Q", "R", "S", "T", "U", "V", "W", "X", "Y", "Z">>
LowerChars == <<"a", "b", "c", "d", "e", "f", "g", "h", "i", "j", "k", "l", "m",
                "n", "o", "p", "q", "r", "s", "t", "u", "v", "w", "x", "y", "z">>

\* value of one hexadecimal digit
HexVal(c) ==
    CASE c = "0" -> 0  [] c = "1" -> 1  [] c = "2" -> 2  [] c = "3" -> 3
      [] c = "4" -> 4  [] c = "5" -> 5  [] c = "6" -> 6  [] c = "7" -> 7
      [] c = "8" -> 8  [] c = "9" -> 9
      [] c \in {"a", "A"} -> 10 [] c \in {"b", "B"} -> 11
      [] c \in {"c", "C"} -> 12 [] c \in {"d", "D"} -> 13
      [] c \in {"e", "E"} -> 14 [] c \in {"f", "F"} -> 15

\* String.prototype.toLowerCase
ToLowerCase(s) ==
    [i \in 1..Len(s) |->
        IF \E k \in 1..26 : UpperChars[k] = s[i]
        THEN LowerChars[CHOOSE k \in 1..26 : UpperChars[k] = s[i]]
        ELSE s[i]]

\* String.prototype.startsWith / endsWith / includes
StartsWith(s, p) == Len(s) >= Len(p) /\ SubSeq(s, 1, Len(p)) = p
EndsWith(s, p)   == Len(s) >= Len(p) /\ SubSeq(s, Len(s) - Len(p) + 1, Len(s)) = p
Includes(s, p)   == \E i \in 1..(Len(s) - Len(p) + 1) : SubSeq(s, i, i + Len(p) - 1) = p

\* String.prototype.split on a one-character separator
Split(s, sep) ==
    LET RECURSIVE F(_, _, _)
        F(i, cur, acc) ==
            IF i > Len(s) THEN Append(acc, cur)
            ELSE IF s[i] = sep THEN F(i + 1, <<>>, Append(acc, cur))
            ELSE F(i + 1, Append(cur, s[i]), acc)
    IN F(1, <<>>, <<>>)

\* Number(digits) for a string of decimal digits
DecVal(g) ==
    LET RECURSIVE F(_, _)
        F(i, acc) == IF i > Len(g) THEN acc ELSE F(i + 1, acc * 10 + HexVal(g[i]))
    IN F(1, 0)

\* the decimal text of a natural number (template literal `${n}`)
DecText(n) ==
    LET RECURSIVE F(_)
        F(k) == IF k < 10 THEN <<DigitChars[k + 1]>>
                ELSE Append(F(k \div 10), DigitChars[(k % 10) + 1])
    IN F(n)

\* parseInt(s, 16): the value of the longest prefix of hexadecimal digits,
\* NaN (here -1) when the prefix is empty.  (The strings of this model hold
\* no white space, sign or 0x prefix.)
NaN == -1
ParseIntHex(s) ==
    LET RECURSIVE F(_, _)
        F(i, acc) == IF i > Len(s) \/ s[i] \notin HexDigits THEN acc
                     ELSE F(i + 1, acc * 16 + HexVal(s[i]))
    IN IF s = <<>> \/ s[1] \notin HexDigits THEN NaN ELSE F(1, 0)

\* x & mask for a 16-bit mask of the form 0xffc0 / 0xff: bit arithmetic on
\* non-negative integers
BitAnd(x, m) ==
    LET RECURSIVE F(_, _, _)
        F(a, b, w) == IF a = 0 \/ b = 0 THEN 0
                      ELSE (IF a % 2 = 1 /\ b % 2 = 1 THEN w ELSE 0)
                           + F(a \div 2, b \div 2, 2 * w)
    IN F(x, m, 1)

\* a shift by four bits in place of eight
Shr8ByNibble(x) == x \div 16
\* x >> 8 on a non-negative integer
Shr8(x) == x \div 256

\* /^\d{1,3}$/ on one group
IsDigits13(g) == Len(g) \in 1..3 /\ \A i \in 1..Len(g) : g[i] \in Digits
\* /^[0-9a-f]{1,4}$/ on one group
IsHex14(g) == Len(g) \in 1..4 /\ \A i \in 1..Len(g) : g[i] \in LowerHex

\* /^(\d{1,3})\.(\d{1,3})\.(\d{1,3})\.(\d{1,3})$/
MatchesDottedQuad(s) ==
    LET parts == Split(s, ".") IN
    Len(parts) = 4 /\ \A i \in 1..4 : IsDigits13(parts[i])


(***************************************************************************)
(* URL validation (validators/url.ts, src/unnamed/part_001).               *)
(* A message is a sequence of text pieces, so that a template literal is   *)
(* a concatenation.                                                        *)
(***************************************************************************)
NotBlocked == [blocked |-> FALSE, reason |-> Undefined]
Blocked(r) == [blocked |-> TRUE, reason |-> r]

\* isBlockedIPv4 with the upper end of 172.16.0.0/12 one octet too far
isBlockedIPv4OffByOne(ip) ==
    IF ~MatchesDottedQuad(ip) THEN NotBlocked
    ELSE
    LET parts == Split(ip, ".")
        a == DecVal(parts[1])
        b == DecVal(parts[2])
        c == DecVal(parts[3])
        d == DecVal(parts[4])
    IN
    IF a = 127 THEN Blocked(<<"Access to loopback addresses is not allowed">>)
    ELSE IF a = 10 THEN Blocked(<<"Access to private network (10.x.x.x) is not allowed">>)
    ELSE IF a = 172 /\ b >= 16 /\ b <= 32
         THEN Blocked(<<"Access to private network (172.16-31.x.x) is not allowed">>)
    ELSE IF a = 192 /\ b = 168
         THEN Blocked(<<"Access to private network (192.168.x.x) is not allowed">>)
    ELSE IF a = 169 /\ b = 254
         THEN Blocked(<<"Access to link-local/metadata addresses (169.254.x.x) is not allowed">>)
    ELSE IF a = 0 THEN Blocked(<<"Access to 0.x.x.x addresses is not allowed">>)
    ELSE IF a = 100 /\ b >= 64 /\ b <= 127
         THEN Blocked(<<"Access to shared/CGNAT addresses (100.64-127.x.x) is not allowed">>)
    ELSE IF a = 198 /\ (b = 18 \/ b = 19)
         THEN Blocked(<<"Access to benchmark addresses (198.18-19.x.x) is not allowed">>)
    ELSE IF a = 255 /\ b = 255 /\ c = 255 /\ d = 255
         THEN Blocked(<<"Access to broadcast address is not allowed">>)
    ELSE NotBlocked

\* isBlockedIPv4(ip), lines 16-71
isBlockedIPv4(ip) ==
    IF ~MatchesDottedQuad(ip) THEN NotBlocked
    ELSE
    LET parts == Split(ip, ".")
        a == DecVal(parts[1])
        b == DecVal(parts[2])
        c == DecVal(parts[3])
        d == DecVal(parts[4])
    IN
    IF a = 127 THEN Blocked(<<"Access to loopback addresses is not allowed">>)
    ELSE IF a = 10 THEN Blocked(<<"Access to private network (10.x.x.x) is not allowed">>)
    ELSE IF a = 172 /\ b >= 16 /\ b <= 31
         THEN Blocked(<<"Access to private network (172.16-31.x.x) is not allowed">>)
    ELSE IF a = 192 /\ b = 168
         THEN Blocked(<<"Access to private network (192.168.x.x) is not allowed">>)
    ELSE IF a = 169 /\ b = 254
         THEN Blocked(<<"Access to link-local/metadata addresses (169.254.x.x) is not allowed">>)
    ELSE IF a = 0 THEN Blocked(<<"Access to 0.x.x.x addresses is not allowed">>)
    ELSE IF a = 100 /\ b >= 64 /\ b <= 127
         THEN Blocked(<<"Access to shared/CGNAT addresses (100.64-127.x.x) is not allowed">>)
    ELSE IF a = 198 /\ (b = 18 \/ b = 19)
         THEN Blocked(<<"Access to benchmark addresses (198.18-19.x.x) is not allowed">>)
    ELSE IF a = 255 /\ b = 255 /\ c = 255 /\ d = 255
         THEN Blocked(<<"Access to broadcast address is not allowed">>)
    ELSE NotBlocked

MappedPrefix == <<":", ":", "f", "f", "f", "f", ":">>

\* isBlockedIPv6(ip), lines 74-125
isBlockedIPv6(ip) ==
    LET normalized == ToLowerCase(ip)
        firstGroup == Split(normalized, ":")[1]
        groupValue == ParseIntHex(firstGroup)
        rest       == SubSeq(normalized, Len(MappedPrefix) + 1, Len(normalized))
        \* /^::ffff:(\d{1,3}\.\d{1,3}\.\d{1,3}\.\d{1,3})$/
        ipv4MappedMatch == StartsWith(normalized, MappedPrefix) /\ MatchesDottedQuad(rest)
        \* /^::ffff:([0-9a-f]{1,4}):([0-9a-f]{1,4})$/
        hexGroups == Split(rest, ":")
        ipv4MappedHexMatch ==
            /\ StartsWith(normalized, MappedPrefix)
            /\ Len(hexGroups) = 2
            /\ IsHex14(hexGroups[1])
            /\ IsHex14(hexGroups[2])
        high == ParseIntHex(hexGroups[1])
        low  == ParseIntHex(hexGroups[2])
        ipv4 == DecText(BitAnd(Shr8(high), 255)) \o <<".">> \o DecText(BitAnd(high, 255))
                  \o <<".">> \o DecText(BitAnd(Shr8(low), 255)) \o <<".">>
                  \o DecText(BitAnd(low, 255))
    IN
    IF normalized = <<":", ":", "1">>
    THEN Blocked(<<"Access to IPv6 localhost is not allowed">>)
    ELSE IF firstGroup # <<>> /\ groupValue # NaN /\ BitAnd(groupValue, 65472) = 65152
    THEN Blocked(<<"Access to IPv6 link-local addresses is not allowed">>)
    ELSE IF StartsWith(normalized, <<"f", "c">>) \/ StartsWith(normalized, <<"f", "d">>)
    THEN Blocked(<<"Access to IPv6 private addresses is not allowed">>)
    ELSE IF ipv4MappedMatch /\ isBlockedIPv4(rest).blocked
    THEN Blocked(<<"Access to IPv4-mapped blocked address: ">> \o isBlockedIPv4(rest).reason)
    ELSE IF ipv4MappedHexMatch /\ isBlockedIPv4(ipv4).blocked
    THEN Blocked(<<"Access to IPv4-mapped blocked address: ">> \o isBlockedIPv4(ipv4).reason)
    ELSE NotBlocked

\* UrlValidationResult (types/index.ts lines 2-7)
UrlInvalid(e) == [valid |-> FALSE, error |-> e, resolvedIp |-> Undefined, hostname |-> Undefined]
UrlValid(ip, h) == [valid |-> TRUE, error |-> Undefined, resolvedIp |-> ip, hostname |-> h]

\* the loop of lines 193-208 from entry i on, with firstNonBlockedIp = first;
\* the value returned at line 198, 204 or 210
RECURSIVE CheckAddresses(_, _, _, _)
CheckAddresses(addresses, i, first, hostname) ==
    IF i > Len(addresses) THEN UrlValid(first, hostname)
    ELSE
    LET addr == addresses[i]
        \* !firstNonBlockedIp: undefined and the empty string are falsy
        unset == first = Undefined \/ first = <<>>
    IN
    IF addr.family = 4
    THEN IF isBlockedIPv4(addr.address).blocked
         THEN UrlInvalid(<<"DNS resolved to blocked IP: ">> \o isBlockedIPv4(addr.address).reason)
         ELSE CheckAddresses(addresses, i + 1, IF unset THEN addr.address ELSE first, hostname)
    ELSE IF addr.family = 6
    THEN IF isBlockedIPv6(addr.address).blocked
         THEN UrlInvalid(<<"DNS resolved to blocked IP: ">> \o isBlockedIPv6(addr.address).reason)
         ELSE CheckAddresses(addresses, i + 1, IF unset THEN addr.address ELSE first, hostname)
    ELSE CheckAddresses(addresses, i + 1, first, hostname)

\* Mutant: the catch of lines 211-216 lets the request through.
ValidateUrlResolvedFailOpen(hostname, dns) ==
    IF dns.throws
    THEN UrlValid(Undefined, hostname)
    ELSE IF Len(dns.addresses) = 0
    THEN UrlInvalid(<<"DNS resolution returned no addresses">>)
    ELSE CheckAddresses(dns.addresses, 1, Undefined, hostname)

\* validateUrl, lines 184-216: what is returned once dnsResolver.lookup has
\* settled with outcome dns ([throws |-> TRUE, message] or
\* [throws |-> FALSE, addresses])
ValidateUrlResolved(hostname, dns) ==
    IF dns.throws
    THEN UrlInvalid(<<"DNS resolution failed: ">> \o dns.message)
    ELSE IF Len(dns.addresses) = 0
    THEN UrlInvalid(<<"DNS resolution returned no addresses">>)
    ELSE CheckAddresses(dns.addresses, 1, Undefined, hostname)

\* validateUrl without the bracketed-literal branch of lines 171-179
ValidateUrlSyncNoLiteral6(parsed) ==
    IF ~parsed.ok THEN [done |-> TRUE, result |-> UrlInvalid(<<"Invalid URL format">>)]
    ELSE IF parsed.protocol # "http:" /\ parsed.protocol # "https:"
    THEN [done |-> TRUE, result |-> UrlInvalid(<<"Only http and https protocols are allowed">>)]
    ELSE
    LET hostname == ToLowerCase(parsed.hostname)
        isLiteralIPv4 == MatchesDottedQuad(hostname)
        isLiteralIPv6 == FALSE
        ipv6 == SubSeq(hostname, 2, Len(hostname) - 1)
    IN
    IF hostname = <<"l","o","c","a","l","h","o","s","t">>
       \/ hostname = <<"l","o","c","a","l","h","o","s","t",".",
                       "l","o","c","a","l","d","o","m","a","i","n">>
    THEN [done |-> TRUE, result |-> UrlInvalid(<<"Access to localhost is not allowed">>)]
    ELSE IF hostname = <<"[", ":", ":", "1", "]">>
    THEN [done |-> TRUE, result |-> UrlInvalid(<<"Access to IPv6 localhost is not allowed">>)]
    ELSE IF isLiteralIPv4
    THEN IF isBlockedIPv4(hostname).blocked
         THEN [done |-> TRUE, result |-> UrlInvalid(isBlockedIPv4(hostname).reason)]
         ELSE [done |-> TRUE, result |-> UrlValid(hostname, hostname)]
    ELSE IF isLiteralIPv6
    THEN IF isBlockedIPv6(ipv6).blocked
         THEN [done |-> TRUE, result |-> UrlInvalid(isBlockedIPv6(ipv6).reason)]
         ELSE [done |-> TRUE, result |-> UrlValid(ipv6, hostname)]
    ELSE [done |-> FALSE, hostname |-> hostname]

\* validateUrl, lines 135-180: the part before the lookup.  parsed is what
\* new URL(urlString) gives: [ok |-> FALSE] when it throws, else
\* [ok |-> TRUE, protocol, hostname].  The result is [done |-> TRUE, result]
\* or, when the resolver is to be called, [done |-> FALSE, hostname].
ValidateUrlSync(parsed) ==
    IF ~parsed.ok THEN [done |-> TRUE, result |-> UrlInvalid(<<"Invalid URL format">>)]
    ELSE IF parsed.protocol # "http:" /\ parsed.protocol # "https:"
    THEN [done |-> TRUE, result |-> UrlInvalid(<<"Only http and https protocols are allowed">>)]
    ELSE
    LET hostname == ToLowerCase(parsed.hostname)
        isLiteralIPv4 == MatchesDottedQuad(hostname)
        isLiteralIPv6 == StartsWith(hostname, <<"[">>) /\ EndsWith(hostname, <<"]">>)
        ipv6 == SubSeq(hostname, 2, Len(hostname) - 1)
    IN
    IF hostname = <<"l","o","c","a","l","h","o","s","t">>
       \/ hostname = <<"l","o","c","a","l","h","o","s","t",".",
                       "l","o","c","a","l","d","o","m","a","i","n">>
    THEN [done |-> TRUE, result |-> UrlInvalid(<<"Access to localhost is not allowed">>)]
    ELSE IF hostname = <<"[", ":", ":", "1", "]">>
    THEN [done |-> TRUE, result |-> UrlInvalid(<<"Access to IPv6 localhost is not allowed">>)]
    ELSE IF isLiteralIPv4
    THEN IF isBlockedIPv4(hostname).blocked
         THEN [done |-> TRUE, result |-> UrlInvalid(isBlockedIPv4(hostname).reason)]
         ELSE [done |-> TRUE, result |-> UrlValid(hostname, hostname)]
    ELSE IF isLiteralIPv6
    THEN IF isBlockedIPv6(ipv6).blocked
         THEN [done |-> TRUE, result |-> UrlInvalid(isBlockedIPv6(ipv6).reason)]
         ELSE [done |-> TRUE, result |-> UrlValid(ipv6, hostname)]
    ELSE [done |-> FALSE, hostname |-> hostname]


\* what new URL(urlString) gives, and how dnsResolver.lookup settles
Url(href, protocol, hostname) ==
    [href |-> href, ok |-> TRUE, protocol |-> protocol, hostname |-> hostname]
BadUrl(href) == [href |-> href, ok |-> FALSE, protocol |-> "", hostname |-> <<>>]

DnsThrows(m) == [throws |-> TRUE, message |-> m, addresses |-> <<>>]
DnsReturns(l) == [throws |-> FALSE, message |-> <<>>, addresses |-> l]
NoDns == [throws |-> FALSE, message |-> <<"not called">>, addresses |-> <<>>]

NoUrl == BadUrl("")
NoResult == [valid |-> FALSE, error |-> <<"pending">>, resolvedIp |-> Undefined, hostname |-> Undefined]

UrlIdle ==
    /\ uPc = "idle"
    /\ uUrl = NoUrl
    /\ uDns = NoDns
    /\ uResult = NoResult
    /\ uAgain = NoResult

(***************************************************************************)
(* Node's path module (posix), as validators/path.ts uses it.              *)
(***************************************************************************)
Slash  == <<"/">>
DotDot == <<".", ".">>

\* the non-empty segments of a path
Components(p) == SelectSeq(Split(p, "/"), LAMBDA c : c # <<>>)

\* segments with "." dropped and ".." applied (at the root ".." stays put)
NormalizeComponents(cs) ==
    LET RECURSIVE F(_, _)
        F(i, acc) ==
            IF i > Len(cs) THEN acc
            ELSE IF cs[i] = <<".">> THEN F(i + 1, acc)
            ELSE IF cs[i] = DotDot
                 THEN F(i + 1, IF acc = <<>> THEN acc ELSE SubSeq(acc, 1, Len(acc) - 1))
            ELSE F(i + 1, Append(acc, cs[i]))
    IN F(1, <<>>)

\* segments joined by "/"
JoinComponents(cs) ==
    LET RECURSIVE F(_)
        F(i) == IF i > Len(cs) THEN <<>>
                ELSE IF i = Len(cs) THEN cs[i]
                ELSE cs[i] \o Slash \o F(i + 1)
    IN F(1)

\* the absolute path made of the segments cs
AbsPath(cs) == Slash \o JoinComponents(cs)

\* path.resolve(p) for an absolute p, path.resolve(base, p) for a relative p
\* and an absolute base
PathResolve(base, p) ==
    IF StartsWith(p, Slash) THEN AbsPath(NormalizeComponents(Components(p)))
    ELSE AbsPath(NormalizeComponents(Components(base) \o Components(p)))

\* path.dirname(p) for a normalized absolute path p
PathDirname(p) ==
    LET cs == Components(p) IN
    IF Len(cs) <= 1 THEN Slash ELSE AbsPath(SubSeq(cs, 1, Len(cs) - 1))

\* path.join(a, b) for an absolute a
PathJoin(a, b) == AbsPath(NormalizeComponents(Components(a) \o Components(b)))

\* path.relative(from, to) for normalized absolute paths
PathRelative(from, to) ==
    LET fc == Components(from)
        tc == Components(to)
        m  == IF Len(fc) < Len(tc) THEN Len(fc) ELSE Len(tc)
        same == {k \in 0..m : \A i \in 1..k : fc[i] = tc[i]}
        k == CHOOSE x \in same : \A y \in same : y <= x
    IN JoinComponents([i \in 1..(Len(fc) - k) |-> DotDot] \o SubSeq(tc, k + 1, Len(tc)))

\* String.prototype.substring(start) with a 0-based start
Substring(str, start) == SubSeq(str, start + 1, Len(str))

\* String.prototype.trim
WhiteSpace == {" ", "\t", "\n"}
Trim(str) ==
    LET keep == {i \in 1..Len(str) : str[i] \notin WhiteSpace} IN
    IF keep = {} THEN <<>>
    ELSE SubSeq(str, CHOOSE i \in keep : \A j \in keep : i <= j,
                     CHOOSE i \in keep : \A j \in keep : j <= i)

(***************************************************************************)
(* The file system behind FileSystem.realpath: a function from absolute    *)
(* paths to nodes (a directory, a file, or a symbolic link with its        *)
(* target).                                                                *)
(***************************************************************************)
Dir        == [kind |-> "dir", target |-> <<>>]
File       == [kind |-> "file", target |-> <<>>]
LinkTo(t)  == [kind |-> "link", target |-> t]

Thrown      == [ok |-> FALSE, path |-> <<>>]
Returned(p) == [ok |-> TRUE, path |-> p]

\* fileSystem.realpath(path): every symbolic link on the way is followed;
\* it throws when a component does not exist (ENOENT), is not a directory
\* (ENOTDIR) or the links loop (ELOOP).  create: the last component may be
\* missing or a dangling link (what opening a file for writing resolves).
RECURSIVE Walk(_, _, _, _, _)
Walk(fsys, cur, rest, fuel, create) ==
    IF rest = <<>> THEN Returned(AbsPath(cur))
    ELSE
    LET next == Head(rest)
        cand == AbsPath(Append(cur, next))
    IN
    IF next = <<".">> THEN Walk(fsys, cur, Tail(rest), fuel, create)
    ELSE IF next = DotDot
    THEN Walk(fsys, IF cur = <<>> THEN cur ELSE SubSeq(cur, 1, Len(cur) - 1),
              Tail(rest), fuel, create)
    ELSE IF cand \notin DOMAIN fsys
    THEN IF create /\ Len(rest) = 1 THEN Returned(cand) ELSE Thrown
    ELSE IF fsys[cand].kind = "link"
    THEN IF fuel = 0 THEN Thrown
         ELSE Walk(fsys, <<>>, Components(fsys[cand].target) \o Tail(rest), fuel - 1, create)
    ELSE IF fsys[cand].kind = "file" /\ Len(rest) > 1 THEN Thrown
    ELSE Walk(fsys, Append(cur, next), Tail(rest), fuel, create)

Realpath(fsys, p) == Walk(fsys, <<>>, Components(p), Cardinality(DOMAIN fsys), FALSE)

\* where writing a file at path p puts the bytes: links are followed, the
\* last component is created when missing (take-screenshot.ts, the
\* screenshot({ path: dest }) calls)
WriteLands(fsys, p) == Walk(fsys, <<>>, Components(p), Cardinality(DOMAIN fsys), TRUE)

(***************************************************************************)
(* validateOutputPath (validators/path.ts lines 24-94).                    *)
(* The value is the PathValidationResult together with what the call did:  *)
(* realPath (the path that was checked) and the realpath calls made.       *)
(***************************************************************************)
PathInvalid(e) == [valid |-> FALSE, path |-> Undefined, error |-> e]
PathValid(p)   == [valid |-> TRUE, path |-> p, error |-> Undefined]

\* the character U+0000
NulByte    == <<"NUL">>
PercentNul == <<"%", "0", "0">>

Outcome(result, realPath, made) ==
    [result |-> result, realPath |-> realPath, calls |-> made, raised |-> FALSE]

\* an exception leaves validateOutputPath: no result is returned
Raised(made) ==
    [result |-> PathInvalid(Undefined), realPath |-> Undefined, calls |-> made,
     raised |-> TRUE]

\* Mutant: line 75 without its try/catch; the exception of realpath goes on.
RealAllowedDirUncaught(fsys, allowedDir) == Realpath(fsys, allowedDir)

\* lines 73-79: realAllowedDir, the resolved form when realpath throws
RealAllowedDir(fsys, allowedDir) ==
    LET rp == Realpath(fsys, allowedDir)
    IN  IF rp.ok THEN rp ELSE Returned(PathResolve(Slash, allowedDir))

\* lines 73-86: one round of the loop over config.allowedOutputDirs
IsInside(fsys, allowedDir, realPath) ==
    LET realAllowedDir == RealAllowedDir(fsys, allowedDir)
        relativePath == PathRelative(realAllowedDir.path, realPath)
    IN  /\ realAllowedDir.ok
        /\ ~StartsWith(relativePath, DotDot) /\ ~StartsWith(relativePath, Slash)

\* lines 72-93: the loop and the final rejection; made are the realpath
\* calls made so far
CheckAllowed(fsys, config, realPath, made) ==
    LET dirs == config.allowedOutputDirs
        hits == {i \in 1..Len(dirs) : IsInside(fsys, dirs[i], realPath)}
        first == CHOOSE i \in hits : \A j \in hits : i <= j
        \* the rounds in which an exception leaves the loop body
        throws == {i \in 1..Len(dirs) : ~RealAllowedDir(fsys, dirs[i]).ok}
        firstThrow == CHOOSE i \in throws : \A j \in throws : i <= j
    IN
    IF throws # {} /\ (hits = {} \/ firstThrow < first)
    THEN Raised(made \o SubSeq(dirs, 1, firstThrow))
    ELSE IF hits # {}
    THEN Outcome(PathValid(realPath), realPath, made \o SubSeq(dirs, 1, first))
    ELSE Outcome(PathInvalid(<<"Output path must be within allowed directories">>),
                 realPath, made \o dirs)

\* line 31 without the trim() test
validateOutputPathNoTrim(customPath, defaultName, config, fsys) ==
    IF customPath = Undefined \/ customPath = <<>>
    THEN Outcome(PathValid(PathJoin(config.defaultOutDir, defaultName)), Undefined, <<>>)
    ELSE IF Includes(customPath, NulByte) \/ Includes(customPath, PercentNul)
    THEN Outcome(PathInvalid(<<"Path contains null bytes">>), Undefined, <<>>)
    ELSE
    LET targetPath == IF StartsWith(customPath, Slash)
                      THEN PathResolve(Slash, customPath)
                      ELSE PathResolve(config.defaultOutDir, customPath)
        full       == Realpath(fsys, targetPath)
        parentDir  == PathDirname(targetPath)
        fileName   == Substring(targetPath, Len(parentDir) + 1)
        realParent == Realpath(fsys, parentDir)
    IN
    IF full.ok
    THEN CheckAllowed(fsys, config, full.path, <<targetPath>>)
    ELSE IF realParent.ok
    THEN CheckAllowed(fsys, config, PathJoin(realParent.path, fileName),
                      <<targetPath, parentDir>>)
    ELSE Outcome(PathInvalid(<<"Parent directory does not exist: ">> \o parentDir),
                 Undefined, <<targetPath, parentDir>>)

\* line 37 without the %00 test
validateOutputPathRawNulOnly(customPath, defaultName, config, fsys) ==
    IF customPath = Undefined \/ customPath = <<>> \/ Trim(customPath) = <<>>
    THEN Outcome(PathValid(PathJoin(config.defaultOutDir, defaultName)), Undefined, <<>>)
    ELSE IF Includes(customPath, NulByte)
    THEN Outcome(PathInvalid(<<"Path contains null bytes">>), Undefined, <<>>)
    ELSE
    LET targetPath == IF StartsWith(customPath, Slash)
                      THEN PathResolve(Slash, customPath)
                      ELSE PathResolve(config.defaultOutDir, customPath)
        full       == Realpath(fsys, targetPath)
        parentDir  == PathDirname(targetPath)
        fileName   == Substring(targetPath, Len(parentDir) + 1)
        realParent == Realpath(fsys, parentDir)
    IN
    IF full.ok
    THEN CheckAllowed(fsys, config, full.path, <<targetPath>>)
    ELSE IF realParent.ok
    THEN CheckAllowed(fsys, config, PathJoin(realParent.path, fileName),
                      <<targetPath, parentDir>>)
    ELSE Outcome(PathInvalid(<<"Parent directory does not exist: ">> \o parentDir),
                 Undefined, <<targetPath, parentDir>>)

\* lines 64-67 checking the unresolved target in place of failing
validateOutputPathParentFailOpen(customPath, defaultName, config, fsys) ==
    IF customPath = Undefined \/ customPath = <<>> \/ Trim(customPath) = <<>>
    THEN Outcome(PathValid(PathJoin(config.defaultOutDir, defaultName)), Undefined, <<>>)
    ELSE IF Includes(customPath, NulByte) \/ Includes(customPath, PercentNul)
    THEN Outcome(PathInvalid(<<"Path contains null bytes">>), Undefined, <<>>)
    ELSE
    LET targetPath == IF StartsWith(customPath, Slash)
                      THEN PathResolve(Slash, customPath)
                      ELSE PathResolve(config.defaultOutDir, customPath)
        full       == Realpath(fsys, targetPath)
        parentDir  == PathDirname(targetPath)
        fileName   == Substring(targetPath, Len(parentDir) + 1)
        realParent == Realpath(fsys, parentDir)
    IN
    IF full.ok
    THEN CheckAllowed(fsys, config, full.path, <<targetPath>>)
    ELSE IF realParent.ok
    THEN CheckAllowed(fsys, config, PathJoin(realParent.path, fileName),
                      <<targetPath, parentDir>>)
    ELSE CheckAllowed(fsys, config, targetPath, <<targetPath, parentDir>>)

\* validateOutputPath, lines 24-94
validateOutputPath(customPath, defaultName, config, fsys) ==
    IF customPath = Undefined \/ customPath = <<>> \/ Trim(customPath) = <<>>
    THEN Outcome(PathValid(PathJoin(config.defaultOutDir, defaultName)), Undefined, <<>>)
    ELSE IF Includes(customPath, NulByte) \/ Includes(customPath, PercentNul)
    THEN Outcome(PathInvalid(<<"Path contains null bytes">>), Undefined, <<>>)
    ELSE
    LET targetPath == IF StartsWith(customPath, Slash)
                      THEN PathResolve(Slash, customPath)
                      ELSE PathResolve(config.defaultOutDir, customPath)
        full       == Realpath(fsys, targetPath)
        parentDir  == PathDirname(targetPath)
        fileName   == Substring(targetPath, Len(parentDir) + 1)
        realParent == Realpath(fsys, parentDir)
    IN
    IF full.ok
    THEN CheckAllowed(fsys, config, full.path, <<targetPath>>)
    ELSE IF realParent.ok
    THEN CheckAllowed(fsys, config, PathJoin(realParent.path, fileName),
                      <<targetPath, parentDir>>)
    ELSE Outcome(PathInvalid(<<"Parent directory does not exist: ">> \o parentDir),
                 Undefined, <<targetPath, parentDir>>)


NoOp == [op |-> "none", caller |-> 0, ret |-> FALSE, handoff |-> FALSE]

\* the callers of SemSpec at rest (specifications that do not use them)
CallIdle ==
    /\ capacity = 0
    /\ cpc = [c \in Callers |-> "idle"]
    /\ microtasks = <<>>
    /\ arrival = <<>>
    /\ completed = <<>>
    /\ lastOp = NoOp
    /\ calls = 0
    /\ strays = 0

\* the Semaphore and its callers at rest
SemIdle ==
    /\ permits = 0
    /\ waiting = <<>>
    /\ CallIdle

(***************************************************************************)
(* take_screenshot (tools/take-screenshot.ts, src/unnamed/part_000).       *)
(***************************************************************************)
\* config/index.ts line 12
MAX_CONCURRENT_SCREENSHOTS == 3

Requests == 1..(MAX_CONCURRENT_SCREENSHOTS + ExtraRequests)

ShotIdle ==
    /\ hPc = [r \in Requests |-> "idle"]
    /\ hBrowser = [r \in Requests |-> "none"]
    /\ hPin = [r \in Requests |-> <<>>]
    /\ hTry = [r \in Requests |-> "none"]
    /\ hReleases = [r \in Requests |-> 0]
    /\ hClose = [r \in Requests |-> "none"]
    /\ hResp = [r \in Requests |-> "none"]
    /\ hLog = [r \in Requests |-> <<>>]

NavIdle ==
    /\ nUrl = NoUrl
    /\ nReqs = <<>>

Ipv4Idle ==
    /\ bPc = "idle"
    /\ bOctets = <<>>
    /\ bIp = <<>>
    /\ bResult = NotBlocked

PinIdle ==
    /\ kPc = "idle"
    /\ kUrl = NoUrl
    /\ kValidation = NoResult
    /\ kPin = <<>>
    /\ kNow = Undefined
    /\ kConnected = Undefined

(***************************************************************************)
(* PathSpec: one call validateOutputPath(customPath, defaultName, config,  *)
(* fileSystem) on a file system that holds the allowed directories and,    *)
(* in every combination, the entries an attacker or an earlier run may     *)
(* have put there.                                                         *)
(***************************************************************************)
\* PathConfig: the allowed directories and the default directory
\* (take-screenshot.test.ts lines 10 and 19)
DirShots == <<"/","h","/","s">>
DirTmp   == <<"/","t","m","p">>
TestConfig == [allowedOutputDirs |-> <<DirShots, DirTmp>>, defaultOutDir |-> DirShots]
DefaultName == <<"s",".","p","n","g">>

BaseEntries ==
    { <<Slash, Dir>>, <<<<"/","h">>, Dir>>, <<<<"/","e","t","c">>, Dir>>, <<<<"/","e","t","c","/","p">>, File>> }

\* /tmp/l: absent, or a link to an existing file outside, to a missing file
\* outside, to an allowed directory, or to a missing file inside
LinkChoices ==
    { {}, {<<<<"/","t","m","p","/","l">>, LinkTo(<<"/","e","t","c","/","p">>)>>}, {<<<<"/","t","m","p","/","l">>, LinkTo(<<"/","e","t","c","/","n">>)>>},
      {<<<<"/","t","m","p","/","l">>, LinkTo(<<"/","h","/","s">>)>>}, {<<<<"/","t","m","p","/","l">>, LinkTo(<<"/","t","m","p","/","g">>)>>} }
\* /tmp/d: absent, or a link to a directory outside
DirLinkChoices == { {}, {<<<<"/","t","m","p","/","d">>, LinkTo(<<"/","e","t","c">>)>>} }
\* /tmp/f and /tmp/..x: absent or present
FileChoices == { {}, {<<<<"/","t","m","p","/","f">>, File>>} }
DotsChoices == { {}, {<<<<"/","t","m","p","/",".",".","x">>, Dir>>} }
\* the allowed directory /h/s: a directory, a link to the directory /h/r,
\* or missing
ShotsChoices ==
    { {<<DirShots, Dir>>}, {<<DirShots, LinkTo(<<"/","h","/","r">>)>>, <<<<"/","h","/","r">>, Dir>>}, {} }

FsOf(entries) ==
    [q \in {e[1] : e \in entries} |-> (CHOOSE e \in entries : e[1] = q)[2]]

\* with /tmp present every combination of the choices; and /tmp missing
FileSystems ==
    { FsOf(BaseEntries \cup {<<DirTmp, Dir>>} \cup l \cup d \cup f \cup x \cup h) :
        l \in LinkChoices, d \in DirLinkChoices, f \in FileChoices,
        x \in DotsChoices, h \in ShotsChoices }
    \cup { FsOf(BaseEntries \cup h) : h \in ShotsChoices }

CustomPaths ==
    { Undefined, <<>>, <<" "," "," ">>,
      <<"/","t","m","p","/","f">>, <<"/","t","m","p","/","g">>, <<"/","t","m","p","/",".",".","x">>, <<"/","t","m","p","/",".",".","x","/","g">>, <<"/","t","m","p","/","l">>, <<"/","t","m","p","/","l","/","g">>,
      <<"/","t","m","p","/","d","/","g">>, <<"/","e","t","c","/","p">>, <<"/","t","m","p","/",".",".","/","e","t","c","/","p">>, <<"g">>, <<".",".","/",".",".","/","e","t","c","/","p">>, <<"/","t","m","p","/","n","/","g">>,
      <<"/","h","/","s">>, <<"/","h","/","s","/","g">>, <<"/","t","m","p">>, <<"/","x">>, <<"/","t","t","m","p">>,
      <<"/","t","m","p","/","a">> \o PercentNul, <<"/","t","m","p","/","a">> \o NulByte \o <<".","p","n","g">>,
      PercentNul \o <<"g">>, NulByte }

NoOutcome == Outcome(PathInvalid(<<"pending">>), Undefined, <<>>)

PathIdle ==
    /\ pPc = "idle"
    /\ pFs = FsOf(BaseEntries)
    /\ pCustom = Undefined
    /\ pOut = NoOutcome
    /\ pAgain = NoOutcome

(***************************************************************************)
(* UrlSpec: one call validateUrl(urlString, dnsResolver).  The inputs are  *)
(* URL strings with what new URL() makes of them, and every way the        *)
(* injected resolver can settle: it throws, or it returns a list of up to  *)
(* MaxAddrs LookupAddress entries {address, family}.                       *)
(***************************************************************************)
HostExample   == <<"e","x","a","m","p","l","e",".","c","o","m">>
HostMixed     == <<"m","i","x","e","d",".","e","x","a","m","p","l","e">>
HostLocalhost == <<"l","o","c","a","l","h","o","s","t">>
HostLocalDom  == <<"l","o","c","a","l","h","o","s","t",".","l","o","c","a","l","d","o","m","a","i","n">>
HostPrivate4  == <<"1","9","2",".","1","6","8",".","1",".","1">>
HostPublic4   == <<"9","3",".","1","8","4",".","2","1","6",".","3","4">>
HostLoop6     == <<"[",":",":","1","]">>
HostPublic6   == <<"[","2","6","0","6",":","2","8","0","0",":",":","1","]">>
HostMapped6   == <<"[",":",":","f","f","f","f",":","7","f","0","0",":","1","]">>

\* lines 194-208: the entries of addresses that the loop has passed to
\* isBlockedIPv4 or isBlockedIPv6 when validateUrl returns
ClassifiedEntries(addresses) ==
    LET RECURSIVE F(_)
        F(i) ==
            IF i > Len(addresses) THEN {}
            ELSE
            LET addr == addresses[i] IN
            IF addr.family = 4
            THEN {i} \cup (IF isBlockedIPv4(addr.address).blocked THEN {} ELSE F(i + 1))
            ELSE IF addr.family = 6
            THEN {i} \cup (IF isBlockedIPv6(addr.address).blocked THEN {} ELSE F(i + 1))
            ELSE F(i + 1)
    IN F(1)

UrlInputs ==
    { BadUrl("not-a-url"),
      Url("ftp://example.com/file", "ftp:", HostExample),
      Url("http://localhost:8080", "http:", HostLocalhost),
      Url("http://localhost.localdomain", "http:", HostLocalDom),
      Url("http://192.168.1.1", "http:", HostPrivate4),
      Url("http://93.184.216.34", "http:", HostPublic4),
      Url("http://[::1]:8080", "http:", HostLoop6),
      Url("http://[2606:2800::1]/", "http:", HostPublic6),
      Url("http://[::ffff:127.0.0.1]/", "http:", HostMapped6),
      Url("https://example.com", "https:", HostExample),
      Url("https://mixed.example", "https:", HostMixed) }

AddrPublic4 == <<"9","3",".","1","8","4",".","2","1","6",".","3","4">>
AddrLoop4   == <<"1","2","7",".","0",".","0",".","1">>
AddrPriv4   == <<"1","0",".","0",".","0",".","5">>
AddrPublic6 == <<"2","6","0","6",":","2","8","0","0",":",":","1">>
AddrLoop6   == <<":",":","1">>
AddrUla6    == <<"f","d","0","0",":",":","1">>
AddrMapped6 == <<":",":","f","f","f","f",":","7","f","0","0",":","1">>

AddressPool == {AddrPublic4, AddrLoop4, AddrPriv4, AddrPublic6, AddrLoop6, AddrUla6, AddrMapped6}
\* LookupAddress.family: 4, 6, or 0 for an address the resolver did not classify
Families == {4, 6, 0}
LookupAddresses == [address : AddressPool, family : Families]

SeqsUpTo(S, n) == UNION {[1..k -> S] : k \in 0..n}

DnsOutcomes ==
    {DnsThrows(<<"getaddrinfo ENOTFOUND">>), DnsThrows(<<"queryA ETIMEOUT">>)}
    \cup {DnsReturns(l) : l \in SeqsUpTo(LookupAddresses, MaxAddrs)}

UrlInit ==
    /\ uPc = "start"
    /\ uUrl = NoUrl
    /\ uDns = NoDns
    /\ uResult = NoResult
    /\ uAgain = NoResult
    /\ SemIdle
    /\ PathIdle
    /\ ShotIdle
    /\ NavIdle
    /\ PinIdle
    /\ Ipv4Idle

\* validateUrl is called: lines 135-180, up to the return or the lookup
ValidateUrlCall ==
    /\ uPc = "start"
    /\ \E u \in UrlInputs :
          /\ uUrl' = u
          /\ LET r == ValidateUrlSync(u) IN
                IF r.done
                THEN uPc' = "done" /\ uResult' = r.result
                ELSE uPc' = "lookup" /\ uResult' = uResult
    /\ UNCHANGED <<uDns, uAgain>>
    /\ UNCHANGED notUrl

\* dnsResolver.lookup settles: lines 186-216
ValidateUrlLookupSettles ==
    /\ uPc = "lookup"
    /\ \E d \in DnsOutcomes :
          /\ uDns' = d
          /\ uResult' = ValidateUrlResolved(ValidateUrlSync(uUrl).hostname, d)
    /\ uPc' = "done"
    /\ UNCHANGED <<uUrl, uAgain>>
    /\ UNCHANGED notUrl

UrlNext ==
    \/ ValidateUrlCall
    \/ ValidateUrlLookupSettles

UrlSpec == UrlInit /\ [][UrlNext]_vars

\* PathSpec: the call
PathInit ==
    /\ pPc = "start"
    /\ pFs \in FileSystems
    /\ pCustom = Undefined
    /\ pOut = NoOutcome
    /\ pAgain = NoOutcome
    /\ SemIdle
    /\ UrlIdle
    /\ ShotIdle
    /\ NavIdle
    /\ PinIdle
    /\ Ipv4Idle

\* validateOutputPath is called and returns (the file system does not
\* change during the call)
ValidateOutputPathCall ==
    /\ pPc = "start"
    /\ \E c \in CustomPaths :
          /\ pCustom' = c
          /\ pOut' = validateOutputPath(c, DefaultName, TestConfig, pFs)
    /\ pPc' = "done"
    /\ UNCHANGED <<pFs, pAgain>>
    /\ UNCHANGED notPath

PathNext == ValidateOutputPathCall

PathSpec == PathInit /\ [][PathNext]_vars

\* ValidatorSpec: one call of either validator
ValidatorInit == UrlInit \/ PathInit
ValidatorNext == UrlNext \/ PathNext
ValidatorSpec == ValidatorInit /\ [][ValidatorNext]_vars

(***************************************************************************)
(* IdemSpec: a validator is called, and called once more with the external *)
(* state as it was: validateUrl on the same url with the resolver          *)
(* answering as before, validateOutputPath on the path of its valid result *)
(* with the file system unchanged.                                         *)
(***************************************************************************)
\* validateUrl(urlString, dnsResolver) once more, lines 131-217
RevalidateUrl ==
    /\ uPc = "done"
    /\ uAgain = NoResult
    /\ LET sync == ValidateUrlSync(uUrl) IN
          uAgain' = IF sync.done THEN sync.result
                    ELSE ValidateUrlResolved(sync.hostname, uDns)
    /\ UNCHANGED <<uPc, uUrl, uDns, uResult>>
    /\ UNCHANGED notUrl

\* validateOutputPath(result.path, defaultName, config, fileSystem), lines 24-94
RevalidatePath ==
    /\ pPc = "done"
    /\ pAgain = NoOutcome
    /\ pOut.result.valid
    /\ pAgain' = validateOutputPath(pOut.result.path, DefaultName, TestConfig, pFs)
    /\ UNCHANGED <<pPc, pFs, pCustom, pOut>>
    /\ UNCHANGED notPath

IdemInit == UrlInit \/ PathInit

IdemNext ==
    \/ UrlNext
    \/ PathNext
    \/ RevalidateUrl
    \/ RevalidatePath

IdemSpec == IdemInit /\ [][IdemNext]_vars



(***************************************************************************)
(* Semaphore (semaphore.ts).  Each operation is the synchronous body of    *)
(* the method; p and w are the fields before the call.                     *)
(***************************************************************************)

\* Mutant of acquire(): the permit is granted but not taken off the counter.
SemAcquireNoDecrement(c) ==
    IF permits > 0
    THEN /\ permits' = permits
         /\ waiting' = waiting
    ELSE /\ permits' = permits
         /\ waiting' = Append(waiting, c)

\* acquire(), lines 21-29: the synchronous part.  Either the permit is
\* taken from the counter, or the caller's resolve callback is pushed.
SemAcquire(c) ==
    IF permits > 0
    THEN /\ permits' = permits - 1
         /\ waiting' = waiting
    ELSE /\ permits' = permits
         /\ waiting' = Append(waiting, c)

\* Mutant of tryAcquire(): with no permit left it queues like acquire().
SemTryAcquireQueues(ret) ==
    IF permits > 0
    THEN /\ permits' = permits - 1
         /\ waiting' = waiting
         /\ ret = TRUE
    ELSE /\ permits' = permits
         /\ waiting' = Append(waiting, 0)
         /\ ret = FALSE

\* Mutant of tryAcquire(): the guard is permits >= 0.
SemTryAcquireOffByOne(ret) ==
    IF permits >= 0
    THEN /\ permits' = permits - 1
         /\ waiting' = waiting
         /\ ret = TRUE
    ELSE /\ permits' = permits
         /\ waiting' = waiting
         /\ ret = FALSE

\* tryAcquire(), lines 35-41.  ret is the returned boolean.
SemTryAcquire(ret) ==
    IF permits > 0
    THEN /\ permits' = permits - 1
         /\ waiting' = waiting
         /\ ret = TRUE
    ELSE /\ permits' = permits
         /\ waiting' = waiting
         /\ ret = FALSE

\* Mutant of release(): the first waiter is removed but never woken
\* (next() is not called).
SemReleaseForgetsWaiter(woken) ==
    IF waiting # <<>>
    THEN /\ waiting' = Tail(waiting)
         /\ woken = <<>>
         /\ permits' = permits
    ELSE /\ waiting' = waiting
         /\ woken = <<>>
         /\ permits' = permits + 1

\* Mutant of release(): the first waiter is woken but left in the queue
\* (waiting[0] instead of waiting.shift()).
SemReleasePeek(woken) ==
    IF waiting # <<>>
    THEN /\ waiting' = waiting
         /\ woken = <<Head(waiting)>>
         /\ permits' = permits
    ELSE /\ waiting' = waiting
         /\ woken = <<>>
         /\ permits' = permits + 1

\* Mutants of release(): the counter is incremented even on a hand-off.
SemReleaseAlwaysIncrement(woken) ==
    /\ permits' = permits + 1
    /\ IF waiting # <<>>
       THEN waiting' = Tail(waiting) /\ woken = <<Head(waiting)>>
       ELSE waiting' = waiting /\ woken = <<>>

\* ... the most recent waiter is woken (pop instead of shift).
SemReleaseLifo(woken) ==
    IF waiting # <<>>
    THEN /\ waiting' = SubSeq(waiting, 1, Len(waiting) - 1)
         /\ woken = <<waiting[Len(waiting)]>>
         /\ permits' = permits
    ELSE /\ waiting' = waiting
         /\ woken = <<>>
         /\ permits' = permits + 1

\* release(), lines 46-54.  woken is <<c>> when next() was called for the
\* waiter c (its promise is resolved), <<>> when the counter was incremented.
SemRelease(woken) ==
    IF waiting # <<>>
    THEN /\ waiting' = Tail(waiting)
         /\ woken = <<Head(waiting)>>
         /\ permits' = permits
    ELSE /\ waiting' = waiting
         /\ woken = <<>>
         /\ permits' = permits + 1

\* get available(), lines 59-61; get waitingCount(), lines 66-68.
available    == permits
waitingCount == Len(waiting)

(***************************************************************************)
(* SemSpec: callers of one Semaphore.  A caller releases only a permit it  *)
(* was granted.  A resolved promise continues in a later microtask; the    *)
(* run time runs microtasks in the order they were queued.                 *)
(***************************************************************************)

SemInit ==
    /\ capacity \in 0..MaxPermits
    /\ permits = capacity
    /\ waiting = <<>>
    /\ cpc = [c \in Callers |-> "idle"]
    /\ microtasks = <<>>
    /\ arrival = <<>>
    /\ completed = <<>>
    /\ lastOp = NoOp
    /\ calls = 0
    /\ strays = 0
    /\ UrlIdle
    /\ PathIdle
    /\ ShotIdle
    /\ NavIdle
    /\ PinIdle
    /\ Ipv4Idle

\* caller c calls acquire()
AcquireCall(c) ==
    /\ cpc[c] = "idle"
    /\ calls < MaxCalls
    /\ calls' = calls + 1
    /\ SemAcquire(c)
    /\ IF permits > 0
       THEN /\ cpc' = [cpc EXCEPT ![c] = "resolved"]
            /\ microtasks' = Append(microtasks, [c |-> c, queued |-> FALSE])
            /\ arrival' = arrival
       ELSE /\ cpc' = [cpc EXCEPT ![c] = "suspended"]
            /\ microtasks' = microtasks
            /\ arrival' = Append(arrival, c)
    /\ lastOp' = [op |-> "acquire", caller |-> c, ret |-> FALSE, handoff |-> FALSE]
    /\ UNCHANGED <<capacity, completed, strays>>
    /\ UNCHANGED notSem

\* caller c calls tryAcquire()
TryAcquireCall(c) ==
    /\ cpc[c] = "idle"
    /\ calls < MaxCalls
    /\ calls' = calls + 1
    /\ \E ret \in BOOLEAN :
          /\ SemTryAcquire(ret)
          /\ cpc' = [cpc EXCEPT ![c] = IF ret THEN "holding" ELSE "idle"]
          /\ lastOp' = [op |-> "tryAcquire", caller |-> c, ret |-> ret, handoff |-> FALSE]
    /\ UNCHANGED <<capacity, microtasks, arrival, completed, strays>>
    /\ UNCHANGED notSem

\* caller c, holding a permit, calls release()
ReleaseCall(c) ==
    /\ cpc[c] = "holding"
    /\ \E woken \in {<<>>} \cup {<<w>> : w \in Callers} :
          /\ SemRelease(woken)
          /\ microtasks' = microtasks \o [i \in 1..Len(woken) |-> [c |-> woken[i], queued |-> TRUE]]
          /\ cpc' = [x \in Callers |->
                        IF x = c THEN "idle"
                        ELSE IF woken # <<>> /\ x = woken[1] THEN "resolved"
                        ELSE cpc[x]]
          /\ lastOp' = [op |-> "release", caller |-> c, ret |-> FALSE,
                        handoff |-> woken # <<>>]
    /\ UNCHANGED <<capacity, arrival, completed, calls, strays>>
    /\ UNCHANGED notSem

\* the run time runs the next microtask: that caller's acquire() completes
Resume ==
    /\ microtasks # <<>>
    /\ LET t == Head(microtasks) IN
          /\ cpc' = [cpc EXCEPT ![t.c] = "holding"]
          /\ completed' = IF t.queued THEN Append(completed, t.c) ELSE completed
          /\ lastOp' = [op |-> "resume", caller |-> t.c, ret |-> FALSE, handoff |-> FALSE]
    /\ microtasks' = Tail(microtasks)
    /\ UNCHANGED <<semVars, capacity, arrival, calls, strays>>
    /\ UNCHANGED notSem

SemNext ==
    \/ \E c \in Callers : AcquireCall(c)
    \/ \E c \in Callers : TryAcquireCall(c)
    \/ \E c \in Callers : ReleaseCall(c)
    \/ Resume

SemSpec == SemInit /\ [][SemNext]_vars

\* SemFairSpec: every caller holding a permit eventually calls release(),
\* and the run time eventually runs every queued microtask.
SemFairSpec ==
    /\ SemSpec
    /\ WF_vars(Resume)
    /\ \A c \in Callers : WF_vars(ReleaseCall(c))

\* AnySpec: any sequence of calls.  release() is a public method and is
\* also called by callers that hold no permit.
StrayReleaseCall(c) ==
    /\ cpc[c] = "idle"
    /\ strays < MaxStrays
    /\ strays' = strays + 1
    /\ \E woken \in {<<>>} \cup {<<w>> : w \in Callers} :
          /\ SemRelease(woken)
          /\ microtasks' = microtasks \o [i \in 1..Len(woken) |-> [c |-> woken[i], queued |-> TRUE]]
          /\ cpc' = [x \in Callers |->
                        IF woken # <<>> /\ x = woken[1] THEN "resolved" ELSE cpc[x]]
          /\ lastOp' = [op |-> "release", caller |-> c, ret |-> FALSE,
                        handoff |-> woken # <<>>]
    /\ UNCHANGED <<capacity, arrival, completed, calls>>
    /\ UNCHANGED notSem

AnyNext ==
    \/ SemNext
    \/ \E c \in Callers : StrayReleaseCall(c)

AnySpec == SemInit /\ [][AnyNext]_vars


(***************************************************************************)
(* ShotSpec: concurrent take_screenshot requests on the one                *)
(* puppeteerSemaphore (config/runtime.ts line 10).  An action is what the  *)
(* handler does from one await to the next; the awaited operation settles  *)
(* either way.  Requests are numbered in the order they arrive.            *)
(***************************************************************************)
\* the url arguments and the answers of the default resolver
ShotUrls ==
    { Url("https://example.com", "https:", HostExample),
      Url("http://localhost:8080", "http:", HostLocalhost) }
ShotDns ==
    { DnsReturns(<<[address |-> AddrPublic4, family |-> 4]>>),
      DnsReturns(<<[address |-> AddrLoop4, family |-> 4]>>),
      DnsThrows(<<"getaddrinfo ENOTFOUND">>) }
\* the outputPath arguments, and the file system they are checked on
ShotCustoms == {Undefined, <<"/","e","t","c","/","p">>}
ShotFs == FsOf(BaseEntries \cup {<<DirTmp, Dir>>, <<DirShots, Dir>>})

\* line 33: what validateUrl(url) returns for each argument and answer
ShotUrlValidations ==
    { LET sync == ValidateUrlSync(url)
      IN  IF sync.done THEN sync.result ELSE ValidateUrlResolved(sync.hostname, d) :
        url \in ShotUrls, d \in ShotDns }
\* line 40: what validateOutputPath(outputPath, defaultName, config) returns
ShotPathValidations ==
    { validateOutputPath(custom, DefaultName, TestConfig, ShotFs).result :
        custom \in ShotCustoms }

ShotInit ==
    /\ permits = MAX_CONCURRENT_SCREENSHOTS
    /\ waiting = <<>>
    /\ CallIdle
    /\ UrlIdle
    /\ PathIdle
    /\ ShotIdle
    /\ NavIdle
    /\ PinIdle
    /\ Ipv4Idle

\* the handler returns resp: its local variables are gone
Return(r, resp) ==
    /\ hPc' = [hPc EXCEPT ![r] = "returned"]
    /\ hResp' = [hResp EXCEPT ![r] = resp]
    /\ hPin' = [hPin EXCEPT ![r] = <<>>]

\* Mutant: the capture goes on whatever tryAcquire() returned.
ProceedsAlways(acquired) == TRUE

\* line 50: if (!puppeteerSemaphore.tryAcquire()) return err(...)
Proceeds(acquired) == acquired

\* Mutant: release() sits at the end of the try block, not in finally.
ReleasesOnlyOnSuccess(resp) == resp = "ok"

\* lines 122-130: the finally block releases on every exit of the try
Releases(resp) == TRUE

\* request r has made the calls named in steps
Logs(r, steps) == hLog' = [hLog EXCEPT ![r] = @ \o steps]

\* puppeteerSemaphore.release() by request r, when due
ReleaseBy(r, resp) ==
    IF Releases(resp)
    THEN /\ \E woken \in {<<>>} \cup {<<w>> : w \in Callers} : SemRelease(woken)
         /\ hReleases' = [hReleases EXCEPT ![r] = @ + 1]
         /\ Logs(r, <<"release">>)
    ELSE UNCHANGED <<semVars, hReleases, hLog>>

\* Mutant: the finally block releases the permit before it closes the
\* browser.
FinallyReleasesFirst(r, resp) ==
    IF hBrowser[r] = "open"
    THEN /\ hPc' = [hPc EXCEPT ![r] = "awaitClose"]
         /\ hResp' = [hResp EXCEPT ![r] = resp]
         /\ \E woken \in {<<>>} \cup {<<w>> : w \in Callers} : SemRelease(woken)
         /\ hReleases' = [hReleases EXCEPT ![r] = @ + 1]
         /\ Logs(r, <<"release", "close">>)
         /\ UNCHANGED hPin
    ELSE /\ ReleaseBy(r, resp)
         /\ Return(r, resp)

\* lines 120-130: the try block is left with resp (a return or a caught
\* error); finally closes the browser first, if there is one
Finally(r, resp) ==
    IF hBrowser[r] = "open"
    THEN /\ hPc' = [hPc EXCEPT ![r] = "awaitClose"]
         /\ hResp' = [hResp EXCEPT ![r] = resp]
         /\ Logs(r, <<"close">>)
         /\ UNCHANGED <<semVars, hReleases, hPin>>
    ELSE /\ ReleaseBy(r, resp)
         /\ Return(r, resp)

\* lines 61-67: the MAP rule of --host-resolver-rules in browserArgs, <<>>
\* when urlValidation lacks the address or the hostname
HostResolverRule(urlValidation) ==
    IF urlValidation.resolvedIp \notin {Undefined, <<>>}
       /\ urlValidation.hostname \notin {Undefined, <<>>}
    THEN <<urlValidation.hostname, urlValidation.resolvedIp>>
    ELSE <<>>

\* lines 28-33: the request arrives; validateUrl(url) is awaited (the url
\* is drawn where the validation settles)
HandlerCall(r) ==
    /\ hPc[r] = "idle"
    /\ \A q \in Requests : q < r => hPc[q] # "idle"
    /\ hPc' = [hPc EXCEPT ![r] = "awaitUrl"]
    /\ Logs(r, <<"validateUrl">>)
    /\ UNCHANGED <<semVars, hBrowser, hPin, hTry, hReleases, hClose, hResp>>
    /\ UNCHANGED notShot

\* lines 33-40: validateUrl has settled; validateOutputPath is awaited
UrlValidated(r) ==
    /\ hPc[r] = "awaitUrl"
    /\ \E urlValidation \in ShotUrlValidations :
          IF ~urlValidation.valid
          THEN /\ Return(r, "err: URL validation failed")
               /\ UNCHANGED <<semVars, hBrowser, hTry, hReleases, hLog>>
          ELSE /\ hPc' = [hPc EXCEPT ![r] = "awaitPath"]
               /\ hPin' = [hPin EXCEPT ![r] = HostResolverRule(urlValidation)]
               /\ Logs(r, <<"validateOutputPath">>)
               /\ UNCHANGED <<semVars, hBrowser, hTry, hReleases, hResp>>
    /\ UNCHANGED hClose
    /\ UNCHANGED notShot

\* lines 40-68: validateOutputPath has settled; tryAcquire(); launch is awaited
PathValidated(r) ==
    /\ hPc[r] = "awaitPath"
    /\ \E pathValidation \in ShotPathValidations :
          IF ~pathValidation.valid
          THEN /\ Return(r, "err: Output path validation failed")
               /\ UNCHANGED <<semVars, hBrowser, hTry, hReleases, hLog>>
          ELSE \E acquired \in BOOLEAN :
                 /\ SemTryAcquire(acquired)
                 /\ hTry' = [hTry EXCEPT ![r] = IF acquired THEN "true" ELSE "false"]
                 /\ IF ~Proceeds(acquired)
                    THEN /\ Return(r, "err: Concurrent screenshot limit reached")
                         /\ Logs(r, <<"tryAcquire">>)
                    ELSE /\ hPc' = [hPc EXCEPT ![r] = "awaitLaunch"]
                         /\ Logs(r, <<"tryAcquire", "launch">>)
                         /\ UNCHANGED <<hPin, hResp>>
                 /\ UNCHANGED <<hBrowser, hReleases>>
    /\ UNCHANGED hClose
    /\ UNCHANGED notShot

\* line 68: puppeteer.launch resolves (the page set-up of lines 69-104 and
\* page.goto of line 106 are awaited) or rejects
LaunchSettles(r) ==
    /\ hPc[r] = "awaitLaunch"
    /\ \/ /\ hBrowser' = [hBrowser EXCEPT ![r] = "open"]
          /\ hPc' = [hPc EXCEPT ![r] = "awaitGoto"]
          /\ UNCHANGED <<semVars, hPin, hTry, hReleases, hResp, hLog>>
       \/ /\ Finally(r, "err: Screenshot error")
          /\ UNCHANGED <<hBrowser, hTry>>
    /\ UNCHANGED hClose
    /\ UNCHANGED notShot

\* lines 69-117: page.goto resolves (the waits and the screenshot are
\* awaited), or it or a call of the page set-up rejects
GotoSettles(r) ==
    /\ hPc[r] = "awaitGoto"
    /\ \/ /\ hPc' = [hPc EXCEPT ![r] = "awaitShot"]
          /\ UNCHANGED <<semVars, hPin, hReleases, hResp, hLog>>
       \/ Finally(r, "err: Screenshot error")
    /\ UNCHANGED <<hBrowser, hTry>>
    /\ UNCHANGED hClose
    /\ UNCHANGED notShot

\* lines 107-121: the screenshot is saved, the element is not found, or a
\* call rejects
ShotSettles(r) ==
    /\ hPc[r] = "awaitShot"
    /\ \E resp \in {"ok", "err: Element not found", "err: Screenshot error"} :
          Finally(r, resp)
    /\ UNCHANGED <<hBrowser, hTry>>
    /\ UNCHANGED hClose
    /\ UNCHANGED notShot

\* lines 125-130: browser.close() resolves, or rejects because the browser
\* is already gone (the error is swallowed); then release() and the return
CloseSettles(r) ==
    /\ hPc[r] = "awaitClose"
    /\ hBrowser' = [hBrowser EXCEPT ![r] = "closed"]
    /\ \E settled \in {"resolved", "rejected"} : hClose' = [hClose EXCEPT ![r] = settled]
    /\ ReleaseBy(r, hResp[r])
    /\ Return(r, hResp[r])
    /\ UNCHANGED hTry
    /\ UNCHANGED notShot

ShotNext ==
    \/ \E r \in Requests : HandlerCall(r)
    \/ \E r \in Requests : UrlValidated(r)
    \/ \E r \in Requests : PathValidated(r)
    \/ \E r \in Requests : LaunchSettles(r)
    \/ \E r \in Requests : GotoSettles(r)
    \/ \E r \in Requests : ShotSettles(r)
    \/ \E r \in Requests : CloseSettles(r)

ShotSpec == ShotInit /\ [][ShotNext]_vars

(***************************************************************************)
(* NavSpec: the page.on('request') handler of one capture (lines 76-104).  *)
(* A request event runs the handler up to its first await; a redirect's    *)
(* validateUrl settles later.  req.continue() returns a promise that the   *)
(* handler does not await: the call continues the request, or it throws,   *)
(* or the promise is rejected after the handler has gone on.               *)
(***************************************************************************)
\* the url of the capture, and the urls of the requests the page makes
NavOriginal == Url(<<"h","t","t","p","s",":","/","/","e","x","a","m","p","l","e",".","c","o","m","/","a">>, "https:", HostExample)
NavReqUrls ==
    { NavOriginal,
      Url(<<"h","t","t","p","s",":","/","/","e","x","a","m","p","l","e",".","c","o","m","/","b">>, "https:", HostExample),
      Url(<<"h","t","t","p",":","/","/","1","6","9",".","2","5","4",".","1","6","9",".","2","5","4","/","m">>, "http:", <<"1","6","9",".","2","5","4",".","1","6","9",".","2","5","4">>),
      Url(<<"h","t","t","p",":","/","/","l","o","c","a","l","h","o","s","t",":","8","0","8","0","/">>, "http:", HostLocalhost) }
NavValidations(reqUrl) ==
    { LET sync == ValidateUrlSync(reqUrl)
      IN  IF sync.done THEN sync.result ELSE ValidateUrlResolved(sync.hostname, d) :
        d \in ShotDns }

NavInit ==
    /\ nUrl = NavOriginal
    /\ nReqs = <<>>
    /\ SemIdle
    /\ UrlIdle
    /\ PathIdle
    /\ ShotIdle
    /\ PinIdle
    /\ Ipv4Idle

\* an intercepted request: what the handler has done with it so far
Intercepted(reqUrl, isNav, pc, validation, continues, aborts) ==
    [url |-> reqUrl, isNavigation |-> isNav, pc |-> pc, validation |-> validation,
     continues |-> continues, aborts |-> aborts,
     \* how often the request was in fact continued, and aborted
     continued |-> 0, aborted |-> 0]

\* Mutant: a redirect is followed whatever its validation says.
FollowsAnyRedirect(redirectValidation) == TRUE

\* line 89: if (!redirectValidation.valid) req.abort('blockedbyclient')
FollowsRedirect(redirectValidation) == redirectValidation.valid

\* how an un-awaited req.continue() can end
ContinueOutcomes == {"continued", "threw", "rejected"}

\* req.continue() at lines 82, 94, 97: the request is continued; or the
\* call throws and the catch of lines 99-103 aborts the request; or the
\* returned promise is rejected, which no catch of the handler sees
Continue(req, outcome) ==
    [req EXCEPT !.pc = "done", !.continues = @ + 1,
                !.continued = IF outcome = "continued" THEN @ + 1 ELSE @,
                !.aborts = IF outcome = "threw" THEN @ + 1 ELSE @,
                !.aborted = IF outcome = "threw" THEN @ + 1 ELSE @]

\* lines 76-98, up to the first await
RequestEvent ==
    /\ Len(nReqs) < MaxIntercepts
    /\ \E reqUrl \in NavReqUrls, isNav \in BOOLEAN, outcome \in ContinueOutcomes :
          LET req == Intercepted(reqUrl, isNav, "start", NoResult, 0, 0)
          IN
          nReqs' = Append(nReqs,
             IF isNav
             THEN IF reqUrl.href = nUrl.href
                  THEN Continue(req, outcome)
                  ELSE [req EXCEPT !.pc = "awaitValidateUrl"]
             ELSE Continue(req, outcome))
    /\ UNCHANGED nUrl
    /\ UNCHANGED notNav

\* lines 87-95: validateUrl(reqUrl) has settled
RedirectValidated ==
    /\ \E i \in 1..Len(nReqs) :
          /\ nReqs[i].pc = "awaitValidateUrl"
          /\ \E redirectValidation \in NavValidations(nReqs[i].url),
                outcome \in ContinueOutcomes :
                LET req == [nReqs[i] EXCEPT !.validation = redirectValidation]
                IN
                nReqs' = [nReqs EXCEPT ![i] =
                   IF ~FollowsRedirect(redirectValidation)
                   THEN [req EXCEPT !.pc = "done", !.aborts = @ + 1, !.aborted = @ + 1]
                   ELSE Continue(req, outcome)]
    /\ UNCHANGED nUrl
    /\ UNCHANGED notNav

NavNext ==
    \/ RequestEvent
    \/ RedirectValidated

NavSpec == NavInit /\ [][NavNext]_vars

(***************************************************************************)
(* PinSpec: the address one capture connects to.  validateUrl(url) settles *)
(* on the resolver's answer, the browser is launched with the arguments of *)
(* lines 61-67, and when page.goto(url) connects, the name service may     *)
(* answer for the host with any address.                                   *)
(***************************************************************************)
PinInit ==
    /\ kPc = "start"
    /\ kUrl = NoUrl
    /\ kValidation = NoResult
    /\ kPin = <<>>
    /\ kNow = Undefined
    /\ kConnected = Undefined
    /\ SemIdle
    /\ UrlIdle
    /\ PathIdle
    /\ ShotIdle
    /\ NavIdle
    /\ Ipv4Idle

\* lines 33-68: urlValidation is returned; the browser is launched with
\* browserArgs unless the url is refused
PinValidate ==
    /\ kPc = "start"
    /\ \E url \in UrlInputs, d \in DnsOutcomes :
          LET sync == ValidateUrlSync(url)
              urlValidation == IF sync.done THEN sync.result
                               ELSE ValidateUrlResolved(sync.hostname, d)
          IN
          /\ kUrl' = url
          /\ kValidation' = urlValidation
          /\ IF urlValidation.valid
             THEN kPc' = "launched" /\ kPin' = HostResolverRule(urlValidation)
             ELSE kPc' = "refused" /\ kPin' = kPin
    /\ UNCHANGED <<kNow, kConnected>>
    /\ UNCHANGED notPin

\* the address the browser connects to for host: the replacement of a MAP
\* rule for that host, the host itself when it is an address, and otherwise
\* what the name service answers now
BrowserResolves(host, rule, now) ==
    IF rule # <<>> /\ rule[1] = host THEN rule[2]
    ELSE IF MatchesDottedQuad(host) THEN host
    ELSE IF StartsWith(host, <<"[">>) /\ EndsWith(host, <<"]">>)
    THEN SubSeq(host, 2, Len(host) - 1)
    ELSE now

\* line 106: page.goto(url) connects to the url's host
PinConnect ==
    /\ kPc = "launched"
    /\ \E now \in AddressPool :
          /\ kNow' = now
          /\ kConnected' = BrowserResolves(ToLowerCase(kUrl.hostname), kPin, now)
    /\ kPc' = "connected"
    /\ UNCHANGED <<kUrl, kValidation, kPin>>
    /\ UNCHANGED notPin

PinNext ==
    \/ PinValidate
    \/ PinConnect

PinSpec == PinInit /\ [][PinNext]_vars

(***************************************************************************)
(* One call of isBlockedIPv4 (validators/url.ts, src/unnamed/part_001) on  *)
(* an address written as four decimal octets.                              *)
(***************************************************************************)
MaxOctet == 255

\* the first and second octets the ranges are decided on: every value
FirstOctets == 0..MaxOctet
SecondOctets == 0..MaxOctet
\* the third and fourth octets, which only the broadcast address looks at
LowOctets == {0, MaxOctet}

\* `${a}.${b}.${c}.${d}`
DottedQuad(a, b, c, d) ==
    DecText(a) \o <<".">> \o DecText(b) \o <<".">> \o DecText(c) \o <<".">> \o DecText(d)

Ipv4Init ==
    /\ bPc = "start"
    /\ \E a \in FirstOctets, b \in SecondOctets, c \in LowOctets, d \in LowOctets :
          /\ bOctets = <<a, b, c, d>>
          /\ bIp = DottedQuad(a, b, c, d)
    /\ bResult = NotBlocked
    /\ SemIdle
    /\ UrlIdle
    /\ PathIdle
    /\ ShotIdle
    /\ NavIdle
    /\ PinIdle

\* lines 16-71: the call returns
IsBlockedIPv4Call ==
    /\ bPc = "start"
    /\ bResult' = isBlockedIPv4(bIp)
    /\ bPc' = "done"
    /\ UNCHANGED <<bOctets, bIp>>
    /\ UNCHANGED notIp

Ipv4Next == IsBlockedIPv4Call

Ipv4Spec == Ipv4Init /\ [][Ipv4Next]_vars

(***************************************************************************)
(* One call of isBlockedIPv6 (validators/url.ts, src/unnamed/part_001) on  *)
(* an address in the compressed lower-case text that dns.lookup and the    *)
(* URL parser produce: first group g, a run of zero groups, last group t.  *)
(***************************************************************************)
MaxGroup == 65535

FirstGroups == 0..MaxGroup
LastGroups == {1, 2}

\* a 16-bit group in lower-case hexadecimal without leading zeros
HexText(n) ==
    LET RECURSIVE F(_)
        F(k) == IF k < 16 THEN <<LowerHexChars[k + 1]>>
                ELSE Append(F(k \div 16), LowerHexChars[(k % 16) + 1])
    IN F(n)

\* g::t, and ::t when the first group is zero as well
CompressedText(g, t) ==
    (IF g = 0 THEN <<>> ELSE HexText(g)) \o <<":", ":">> \o HexText(t)

Ipv6Init ==
    /\ bPc = "start6"
    /\ \E g \in FirstGroups, t \in LastGroups :
          /\ bOctets = <<g, t>>
          /\ bIp = CompressedText(g, t)
    /\ bResult = NotBlocked
    /\ SemIdle
    /\ UrlIdle
    /\ PathIdle
    /\ ShotIdle
    /\ NavIdle
    /\ PinIdle

\* lines 74-125: the call returns
IsBlockedIPv6Call ==
    /\ bPc = "start6"
    /\ bResult' = isBlockedIPv6(bIp)
    /\ bPc' = "done6"
    /\ UNCHANGED <<bOctets, bIp>>
    /\ UNCHANGED notIp

Ipv6Next == IsBlockedIPv6Call

Ipv6Spec == Ipv6Init /\ [][Ipv6Next]_vars

(***************************************************************************)
(* One call of isBlockedIPv6 on an IPv4-mapped address, in the dotted form *)
(* ::ffff:a.b.c.d and in the hexadecimal form ::ffff:HHHH:LLLL that the    *)
(* URL parser produces.                                                    *)
(***************************************************************************)
MappedForms == {"dotted", "hex"}

MappedText(form, a, b, c, d) ==
    IF form = "dotted"
    THEN MappedPrefix \o DottedQuad(a, b, c, d)
    ELSE MappedPrefix \o HexText(a * 256 + b) \o <<":">> \o HexText(c * 256 + d)

MappedInit ==
    /\ bPc = "startMapped"
    /\ \E a \in FirstOctets, b \in SecondOctets, c \in LowOctets, d \in LowOctets,
          form \in MappedForms :
          /\ bOctets = <<a, b, c, d>>
          /\ bIp = MappedText(form, a, b, c, d)
    /\ bResult = NotBlocked
    /\ SemIdle
    /\ UrlIdle
    /\ PathIdle
    /\ ShotIdle
    /\ NavIdle
    /\ PinIdle

\* lines 74-125: the call returns
IsBlockedMappedCall ==
    /\ bPc = "startMapped"
    /\ bResult' = isBlockedIPv6(bIp)
    /\ bPc' = "doneMapped"
    /\ UNCHANGED <<bOctets, bIp>>
    /\ UNCHANGED notIp

MappedNext == IsBlockedMappedCall

MappedSpec == MappedInit /\ [][MappedNext]_vars



(***************************************************************************)
(* Claims about the Semaphore (checked under SemSpec).                     *)
(***************************************************************************)
\* permits granted (by the counter or by a hand-off) and not yet released
Granted == {c \in Callers : cpc[c] \in {"resolved", "holding"}}

IsPrefix(s, t) == Len(s) <= Len(t) /\ \A i \in 1..Len(s) : s[i] = t[i]

\* C1: with every caller releasing only a permit it was granted, the number
\* of granted-but-not-yet-released permits never exceeds the capacity.
C1_OutstandingWithinCapacity == Cardinality(Granted) <= capacity

\* C1 witness: the capacity is fully used while another caller is queued.
C1_Witness ==
    /\ capacity = 2
    /\ Cardinality(Granted) = 2
    /\ waiting # <<>>

\* C5: callers suspended in acquire() complete in the order they were
\* queued: the completion history is a prefix of the arrival history.
C5_FifoCompletion == IsPrefix(completed, arrival)

\* C5 witness: three queued callers have completed, two waited together.
C5_Witness ==
    /\ Len(completed) >= 3
    /\ completed[1] # completed[2]
    /\ lastOp.op = "resume"

LookupMade == uPc = "done" /\ uDns # NoDns

\* the block-lists' verdict on an address text, whichever its family
IsBlockedAddress(a) == isBlockedIPv4(a).blocked \/ isBlockedIPv6(a).blocked

\* the first entry of a list whose address is not blocked
FirstNonBlocked(l) ==
    LET ok == {i \in 1..Len(l) : ~IsBlockedAddress(l[i].address)} IN
    IF ok = {} THEN Undefined
    ELSE l[CHOOSE i \in ok : \A j \in ok : i <= j].address

\* C2: for a resolved hostname, a valid result implies that every address
\* the resolver returned was classified and none of them is blocked.
C2_AnyBlockedInvalidates ==
    (LookupMade /\ uResult.valid) =>
        \A i \in 1..Len(uDns.addresses) :
            /\ uDns.addresses[i].family \in {4, 6}
            /\ ~IsBlockedAddress(uDns.addresses[i].address)

\* C10: a valid result for a resolved hostname carries the hostname and a
\* resolvedIp that is the first non-blocked address of the resolver's list.
C10_ResolvedIpIsFirstNonBlocked ==
    (LookupMade /\ uResult.valid) =>
        /\ uResult.hostname = ToLowerCase(uUrl.hostname)
        /\ uResult.resolvedIp # Undefined
        /\ \E i \in 1..Len(uDns.addresses) : uDns.addresses[i].address = uResult.resolvedIp
        /\ ~IsBlockedAddress(uResult.resolvedIp)
        /\ uResult.resolvedIp = FirstNonBlocked(uDns.addresses)


(***************************************************************************)
(* Claims about validateOutputPath (checked under PathSpec).               *)
(***************************************************************************)
\* a custom path was given and its resolution succeeded: the call reached
\* the containment check with a real path
Resolved == pPc = "done" /\ pOut.realPath # Undefined

\* q is dir or lies below it, component by component
IsWithin(dir, q) == IsPrefix(Components(dir), Components(q))

\* an allowed directory with its symbolic links resolved (its literal form
\* when it does not exist)
ResolvedDir(fsys, dir) ==
    IF Realpath(fsys, dir).ok THEN Realpath(fsys, dir).path ELSE PathResolve(Slash, dir)

WithinAllowed(fsys, q) ==
    \E i \in 1..Len(TestConfig.allowedOutputDirs) :
        IsWithin(ResolvedDir(fsys, TestConfig.allowedOutputDirs[i]), q)

\* C3: when resolution succeeds, the result is valid exactly when the
\* resolved target is an allowed directory or a descendant of one.
C3_ValidIffContained ==
    Resolved => (pOut.result.valid <=> WithinAllowed(pFs, pOut.realPath))

\* C4: a write to the path returned by a valid result for a custom path
\* never lands outside the (resolved) allowed directories.
C4_WriteStaysInside ==
    (Resolved /\ pOut.result.valid /\ WriteLands(pFs, pOut.result.path).ok)
        => WithinAllowed(pFs, WriteLands(pFs, pOut.result.path).path)

(***************************************************************************)
(* Claims about the take_screenshot handler.                               *)
(***************************************************************************)
\* C7: a request whose tryAcquire() returned true has called release()
\* exactly once when its handler returns, whatever the exit path, and never
\* more than once; a request whose tryAcquire() returned false, or that
\* never reached tryAcquire(), has called release() zero times.
C7_ReleaseExactlyOnce ==
    \A r \in Requests :
        /\ hReleases[r] <= 1
        /\ hTry[r] # "true" => hReleases[r] = 0
        /\ hPc[r] = "returned" /\ hTry[r] = "true" => hReleases[r] = 1

\* four requests have returned: three held the permits and left by a failed
\* launch, by a missing element and by a close() that threw, one was refused
C7_Witness ==
    /\ \A r \in Requests : hPc[r] = "returned"
    /\ \E r \in Requests :
          hTry[r] = "true" /\ hBrowser[r] = "none" /\ hReleases[r] = 1
    /\ \E r \in Requests :
          hResp[r] = "err: Element not found" /\ hReleases[r] = 1
    /\ \E r \in Requests :
          hClose[r] = "rejected" /\ hResp[r] = "ok" /\ hReleases[r] = 1
    /\ \E r \in Requests : hTry[r] = "false" /\ hReleases[r] = 0

\* the browsers launched (or being launched) and not yet closed
OpenBrowsers ==
    {r \in Requests : hPc[r] = "awaitLaunch" \/ hBrowser[r] = "open"}

\* C8: at most MAX_CONCURRENT_SCREENSHOTS browsers are open at once, and a
\* request that has released its permit has no open browser.
C8_OpenBrowsersWithinLimit ==
    /\ Cardinality(OpenBrowsers) <= MAX_CONCURRENT_SCREENSHOTS
    /\ \A r \in Requests : hReleases[r] > 0 => r \notin OpenBrowsers

\* the limit is reached with every browser launched, and a further request
\* has been turned away
C8_Witness ==
    /\ Cardinality({r \in Requests : hBrowser[r] = "open"}) = MAX_CONCURRENT_SCREENSHOTS
    /\ \E r \in Requests : hTry[r] = "false" /\ hPc[r] = "returned"

\* C9: a navigation request for another url than the capture's is
\* continued only after validateUrl returned valid for it, and is aborted
\* and not continued once validateUrl returned invalid; a navigation
\* request for the capture's own url is continued and never validated.
C9_RedirectsValidated ==
    \A i \in 1..Len(nReqs) :
        LET req == nReqs[i]
        IN  req.isNavigation =>
              IF req.url.href # nUrl.href
              THEN /\ req.continues > 0 => req.validation # NoResult /\ req.validation.valid
                   /\ req.validation # NoResult /\ ~req.validation.valid
                         => req.aborts = 1 /\ req.continues = 0
                   /\ req.pc = "done" => req.validation # NoResult
              ELSE /\ req.validation = NoResult
                   /\ req.continues = 1

\* one redirect was validated and continued, another was validated and
\* aborted
C9_Witness ==
    /\ \E i \in 1..Len(nReqs) :
          /\ nReqs[i].isNavigation /\ nReqs[i].url.href # nUrl.href
          /\ nReqs[i].validation # NoResult /\ nReqs[i].validation.valid
          /\ nReqs[i].continues = 1 /\ nReqs[i].aborts = 0
    /\ \E i \in 1..Len(nReqs) :
          /\ nReqs[i].isNavigation /\ nReqs[i].url.href # nUrl.href
          /\ nReqs[i].validation # NoResult /\ ~nReqs[i].validation.valid
          /\ nReqs[i].aborts = 1

(***************************************************************************)
(* Claims about the address a capture connects to (checked under PinSpec). *)
(***************************************************************************)
\* C11: a capture that connects for the validated hostname connects to the
\* resolvedIp that validateUrl returned, whatever the name service answers
\* at connection time.
C11_ConnectionPinned ==
    kPc = "connected" => kConnected = kValidation.resolvedIp

(***************************************************************************)
(* Claims about the failures of the injected capabilities.                 *)
(***************************************************************************)
\* C12: when the resolver throws for a hostname, validateUrl returns
\* valid=false, an error that starts with 'DNS resolution failed: ' and
\* carries the resolver's message, and no resolvedIp.
C12_ResolverFailureFailsClosed ==
    (uPc = "done" /\ uDns.throws) =>
        /\ ~uResult.valid
        /\ uResult.error = <<"DNS resolution failed: ">> \o uDns.message
        /\ uResult.resolvedIp = Undefined

\* the resolver has thrown (a timeout) for a name that needed the lookup
C12_Witness ==
    /\ uPc = "done"
    /\ uDns = DnsThrows(<<"queryA ETIMEOUT">>)
    /\ uUrl.hostname = HostExample
    /\ ~uResult.valid

\* C13: a call of validateUrl or of validateOutputPath ends with a result
\* value, never with an exception, whatever the resolver or realpath does;
\* a result that is not valid carries an error string.
C13_NoExceptionCrosses ==
    /\ uPc = "done" =>
          /\ uResult # NoResult
          /\ ~uResult.valid => uResult.error \notin {Undefined, <<>>}
    /\ pPc = "done" =>
          /\ ~pOut.raised
          /\ ~pOut.result.valid => pOut.result.error \notin {Undefined, <<>>}

\* validateOutputPath has returned a valid result although realpath threw
\* for the target and again for an allowed directory
C13_Witness ==
    /\ pPc = "done" /\ Len(pOut.calls) >= 3
    /\ ~Realpath(pFs, pOut.calls[1]).ok
    /\ \E i \in 3..Len(pOut.calls) : ~Realpath(pFs, pOut.calls[i]).ok
    /\ pOut.result.valid

(***************************************************************************)
(* Further claims about the Semaphore.                                     *)
(***************************************************************************)
\* C14: a tryAcquire() call finishes within the call: with available > 0
\* it takes exactly one permit and returns true, with available = 0 it
\* returns false and changes neither the count nor the waiter queue; in
\* both cases nobody is suspended or scheduled by it.
C14_TryAcquireImmediate ==
    [][ (\E c \in Callers : TryAcquireCall(c)) =>
           /\ lastOp'.op = "tryAcquire"
           /\ IF available > 0
              THEN lastOp'.ret = TRUE /\ available' = available - 1
              ELSE lastOp'.ret = FALSE /\ available' = available
           /\ waiting' = waiting
           /\ microtasks' = microtasks
           /\ cpc'[lastOp'.caller] = (IF lastOp'.ret THEN "holding" ELSE "idle")
      ]_vars

\* a tryAcquire() has returned false while two callers stay queued
C14_Witness ==
    /\ lastOp.op = "tryAcquire"
    /\ lastOp.ret = FALSE
    /\ available = 0
    /\ waitingCount = 2

\* C15 as stated: after any sequence of calls, whenever no caller is
\* waiting, 0 <= available <= capacity.
C15_AvailableWithinCapacity ==
    waitingCount = 0 => (0 <= available /\ available <= capacity)

\* C15 as amended: the same, after any sequence of calls in which release()
\* was called only by callers holding a permit.
C15_AvailableWithinCapacityPaired ==
    (strays = 0 /\ waitingCount = 0) => (0 <= available /\ available <= capacity)

\* every permit was taken and given back: the count is at the capacity
\* again, after a hand-off and with nobody waiting
C15_Witness ==
    /\ strays = 0
    /\ waitingCount = 0
    /\ capacity = 2
    /\ available = capacity
    /\ completed # <<>>
    /\ lastOp.op = "release"

\* callers blocked in acquire(): queued and not yet handed a permit
Suspended == {c \in Callers : cpc[c] = "suspended"}

\* C16: in every reachable state, a non-empty waiter queue implies
\* available = 0, and waitingCount is the number of callers blocked in
\* acquire() (the queue holds exactly them, each once).
C16_WaitersImplyNoPermit ==
    /\ waitingCount > 0 => available = 0
    /\ waitingCount = Cardinality(Suspended)
    /\ {waiting[i] : i \in 1..Len(waiting)} = Suspended

\* two callers are queued while a third, woken by a release(), has not
\* resumed yet
C16_Witness ==
    /\ waitingCount = 2
    /\ available = 0
    /\ \E i \in 1..Len(microtasks) : microtasks[i].queued

\* a caller leaves the queue of acquire() only by a hand-off of release(),
\* as the longest-waiting one, and its acquire() completes only after a
\* permit was granted to it
CompletesOnlyGranted ==
    [][ \A c \in Callers :
           /\ (cpc[c] = "suspended" /\ cpc'[c] # "suspended") =>
                 /\ \E h \in Callers : ReleaseCall(h)
                 /\ waiting # <<>> /\ c = Head(waiting)
                 /\ cpc'[c] = "resolved"
           /\ (cpc[c] # "holding" /\ cpc'[c] = "holding") =>
                 \/ cpc[c] = "resolved"
                 \/ lastOp'.op = "tryAcquire" /\ lastOp'.ret /\ lastOp'.caller = c
      ]_vars

HandlerOrder ==
    <<"validateUrl", "validateOutputPath", "tryAcquire", "launch", "close", "release">>
OrderedLogs ==
    {SubSeq(HandlerOrder, 1, k) : k \in 0..Len(HandlerOrder)}
    \cup {<<"validateUrl", "validateOutputPath", "tryAcquire", "launch", "release">>}
ValidationErrors ==
    {"err: URL validation failed", "err: Output path validation failed"}

\* C18: the calls of every handler come in the order validateUrl,
\* validateOutputPath, tryAcquire, capture, browser close, release; a
\* request refused by either validation returns an error without having
\* called tryAcquire or release, and its return leaves the semaphore as it
\* was.
C18_StepsInOrder ==
    /\ [](\A r \in Requests :
            /\ hLog[r] \in OrderedLogs
            /\ hResp[r] \in ValidationErrors =>
                  /\ hTry[r] = "none" /\ hReleases[r] = 0
                  /\ \A i \in 1..Len(hLog[r]) : hLog[r][i] \notin {"tryAcquire", "release"})
    /\ [][ \A r \in Requests :
              (hResp[r] \notin ValidationErrors /\ hResp'[r] \in ValidationErrors)
                 => /\ permits' = permits /\ waiting' = waiting
                    /\ hPc'[r] = "returned"
         ]_vars

\* one request has gone through all six calls, one was refused for its
\* url and one for its output path
C18_Witness ==
    /\ \E r \in Requests : hLog[r] = HandlerOrder /\ hPc[r] = "returned"
    /\ \E r \in Requests : hResp[r] = "err: URL validation failed"
    /\ \E r \in Requests : hResp[r] = "err: Output path validation failed"

LimitError == "err: Concurrent screenshot limit reached"

UpperHalf(o) == o[1] * 256 + o[2]
UnderPrefix(o, a, b, len) ==
    UpperHalf(o) \div 2^(16 - len) = (a * 256 + b) \div 2^(16 - len)

InBlockedRanges(o) ==
    \/ UnderPrefix(o, 127, 0, 8)
    \/ UnderPrefix(o, 10, 0, 8)
    \/ UnderPrefix(o, 172, 16, 12)
    \/ UnderPrefix(o, 192, 168, 16)
    \/ UnderPrefix(o, 169, 254, 16)
    \/ UnderPrefix(o, 0, 0, 8)
    \/ UnderPrefix(o, 100, 64, 10)
    \/ UnderPrefix(o, 198, 18, 15)
    \/ o = <<255, 255, 255, 255>>

JustOutside ==
    { <<172, 15, 255, 255>>, <<172, 32, 0, 0>>, <<100, 63, 255, 255>>,
      <<100, 128, 0, 0>>, <<198, 17, 255, 255>>, <<198, 20, 0, 0>> }

\* C20: isBlockedIPv4 answers blocked for a dotted-decimal address exactly
\* when the address is under one of the nine listed prefixes or is the
\* broadcast address, and not blocked for the six addresses next to the
\* range boundaries.
C20_BlockedExactlyInRanges ==
    bPc = "done" =>
       /\ bResult.blocked <=> InBlockedRanges(bOctets)
       /\ bOctets \in JustOutside => ~bResult.blocked

\* the address one past the end of 172.16.0.0/12 was classified
C20_Witness ==
    /\ bPc = "done"
    /\ bOctets = <<172, 32, 0, 0>>
    /\ bIp = <<"1", "7", "2", ".", "3", "2", ".", "0", ".", "0">>
    /\ ~bResult.blocked

\* the three ranges of the claim, on the first and last group of g::t
Loopback6(o) == o = <<0, 1>>
LinkLocal6(o) == o[1] \div 2^6 = 65152 \div 2^6
UniqueLocal6(o) == o[1] \div 2^9 = 64512 \div 2^9

C22_MappedAsIPv4 ==
    bPc = "doneMapped" =>
       (bResult.blocked
           <=> isBlockedIPv4(DottedQuad(bOctets[1], bOctets[2], bOctets[3], bOctets[4])).blocked)

\* the hexadecimal form of the metadata range was classified, and blocked
C22_Witness ==
    /\ bPc = "doneMapped"
    /\ bOctets = <<169, 254, 0, 0>>
    /\ bIp = <<":", ":", "f", "f", "f", "f", ":", "a", "9", "f", "e", ":", "0">>
    /\ bResult.blocked

\* the lists that hold the entries of l in another order
Reorderings(l) ==
    { [i \in 1..Len(l) |-> l[p[i]]] : p \in Permutations(1..Len(l)) }

\* C23: for a resolved hostname the valid/invalid verdict is the same for
\* every order of the resolver's list, and a valid result is returned only
\* after every entry of the list has been classified.
C23_OrderIndependent ==
    (LookupMade /\ ~uDns.throws) =>
        /\ \A l \in Reorderings(uDns.addresses) :
              ValidateUrlResolved(ValidateUrlSync(uUrl).hostname, DnsReturns(l)).valid
                 = uResult.valid
        /\ uResult.valid =>
              ClassifiedEntries(uDns.addresses) = 1..Len(uDns.addresses)

\* the urls of the claim: malformed, another scheme, a loopback name, or an
\* address literal as hostname
DecidedFromUrl(u) ==
    \/ ~u.ok
    \/ u.protocol \notin {"http:", "https:"}
    \/ ToLowerCase(u.hostname) \in {HostLocalhost, HostLocalDom, HostLoop6}
    \/ MatchesDottedQuad(u.hostname)
    \/ (Head(u.hostname) = "[" /\ u.hostname[Len(u.hostname)] = "]")

\* the address an address-literal hostname denotes
LiteralAddress(h) == IF Head(h) = "[" THEN SubSeq(h, 2, Len(h) - 1) ELSE h

\* C24: for a url that is malformed, has another scheme than http/https,
\* names localhost, localhost.localdomain or [::1], or has an address
\* literal as hostname, validateUrl never awaits the resolver and its
\* verdict is the one the url alone determines.
C24_NoLookupWhenDecidedFromUrl ==
    DecidedFromUrl(uUrl) =>
       /\ uPc # "lookup"
       /\ uPc = "done" =>
             /\ uDns = NoDns
             /\ uResult.valid <=>
                   /\ uUrl.ok
                   /\ uUrl.protocol \in {"http:", "https:"}
                   /\ ToLowerCase(uUrl.hostname) \notin {HostLocalhost, HostLocalDom, HostLoop6}
                   /\ ~IsBlockedAddress(LiteralAddress(uUrl.hostname))

\* a bracketed public IPv6 literal was accepted without a lookup
C24_Witness ==
    /\ uPc = "done"
    /\ uUrl.hostname = HostPublic6
    /\ uDns = NoDns
    /\ uResult.valid
    /\ uResult.resolvedIp = AddrPublic6

\* customPath is undefined, empty or made of white space only
IsBlankPath(c) == c = Undefined \/ \A i \in 1..Len(c) : c[i] \in WhiteSpace

\* C25: for a blank customPath validateOutputPath returns valid with the
\* default directory joined with the default file name, on every file
\* system, and calls realpath not once.
C25_BlankGivesDefault ==
    (pPc = "done" /\ IsBlankPath(pCustom)) =>
        /\ ~pOut.raised
        /\ pOut.result = PathValid(<<"/","h","/","s","/","s",".","p","n","g">>)
        /\ pOut.calls = <<>>

\* a white-space-only path was given on a file system without the default
\* directory, and the default path came back
C25_Witness ==
    /\ pPc = "done"
    /\ pCustom = <<" ", " ", " ">>
    /\ DirShots \notin DOMAIN pFs
    /\ pOut.result.valid
    /\ pOut.result.path = DirShots \o Slash \o DefaultName

\* C26: a non-blank customPath that holds a null byte or %00 anywhere is
\* rejected on every file system, and realpath is not called.
C26_NullByteRejected ==
    (pPc = "done" /\ ~IsBlankPath(pCustom)
       /\ \E i \in 1..Len(pCustom) :
             \/ pCustom[i] = "NUL"
             \/ (i + 2 <= Len(pCustom) /\ pCustom[i] = "%"
                    /\ pCustom[i + 1] = "0" /\ pCustom[i + 2] = "0"))
      => /\ ~pOut.raised
         /\ ~pOut.result.valid
         /\ pOut.result.path = Undefined
         /\ pOut.calls = <<>>

\* /tmp/a%00, whose parent directory exists, was rejected
C26_Witness ==
    /\ pPc = "done"
    /\ pCustom = <<"/","t","m","p","/","a","%","0","0">>
    /\ DirTmp \in DOMAIN pFs
    /\ ~pOut.result.valid
    /\ pOut.calls = <<>>

\* the absolute target of a custom path, its parent directory and its final
\* component, read off the segments of the path
TargetOf(c) ==
    AbsPath(NormalizeComponents(
        (IF Head(c) = "/" THEN <<>> ELSE Components(TestConfig.defaultOutDir))
           \o Components(c)))
ParentOf(t) == AbsPath(SubSeq(Components(t), 1, Len(Components(t)) - 1))
FinalComponent(t) == Components(t)[Len(Components(t))]

\* the call went past the null-byte test: realpath was called
Looked == pPc = "done" /\ ~pOut.raised /\ pOut.calls # <<>>

\* C27: when realpath fails for the target and for its parent directory the
\* result is invalid with the 'Parent directory does not exist' error and
\* no path, whether or not the target's text lies inside an allowed
\* directory; no allowed directory is resolved.
C27_MissingParentFailsClosed ==
    (Looked /\ ~Realpath(pFs, TargetOf(pCustom)).ok
            /\ ~Realpath(pFs, ParentOf(TargetOf(pCustom))).ok)
      => /\ ~pOut.result.valid
         /\ pOut.result.path = Undefined
         /\ Head(pOut.result.error) = "Parent directory does not exist: "
         /\ Tail(pOut.result.error) = ParentOf(TargetOf(pCustom))
         /\ pOut.calls = <<TargetOf(pCustom), ParentOf(TargetOf(pCustom))>>

\* /tmp/n/g under an existing /tmp: the text is inside an allowed directory,
\* the parent /tmp/n is missing, the path was refused
C27_Witness ==
    /\ Looked
    /\ pCustom = <<"/","t","m","p","/","n","/","g">>
    /\ DirTmp \in DOMAIN pFs
    /\ ~pOut.result.valid
    /\ Head(pOut.result.error) = "Parent directory does not exist: "

\* C29: when realpath fails for the target and succeeds for its parent
\* directory, the path that is checked (and returned when valid) is the
\* resolved parent joined with the final component of the target, also
\* when the parent is the root.
C29_ParentPlusFinalComponent ==
    (Looked /\ ~Realpath(pFs, TargetOf(pCustom)).ok
            /\ Realpath(pFs, ParentOf(TargetOf(pCustom))).ok)
      => /\ pOut.realPath
              = AbsPath(Components(Realpath(pFs, ParentOf(TargetOf(pCustom))).path)
                          \o <<FinalComponent(TargetOf(pCustom))>>)
         /\ pOut.result.valid => pOut.result.path = pOut.realPath

\* C28: a second validation with unchanged external state returns what the
\* first returned: the same result for the same url, and for the path of a
\* valid result a valid result with that same path.
C28_Idempotent ==
    /\ uAgain # NoResult => uAgain = uResult
    /\ pAgain # NoOutcome =>
          /\ ~pAgain.raised
          /\ pAgain.result = PathValid(pOut.result.path)

\* C30: a request the handler is done with has been continued or aborted,
\* once and not both, whether it is a navigation request or not and
\* however req.continue() ended; and no request is ever resolved twice.
C30_ResolvedExactlyOnce ==
    \A i \in 1..Len(nReqs) :
        /\ nReqs[i].continued + nReqs[i].aborted <= 1
        /\ nReqs[i].pc = "done" => nReqs[i].continued + nReqs[i].aborted = 1

=============================================================================
